---- MODULE Spec2Model ----
(***************************************************************************)
(* Model of the knowledge-graph store of memory/scripts/memory_tools.py:   *)
(* the KnowledgeGraph class (in-memory entities and relations, _load and   *)
(* _save on a JSONL file) and the tool functions that wrap it; and of the  *)
(* sessions of sequential-thinking/scripts/sequential_thinking.py, kept in *)
(* _state_store.                                                           *)
(*                                                                         *)
(* entities is the Python dict of the instance, kept as the sequence of    *)
(* its items in insertion order; relations is the Python list.  file is    *)
(* the store file: whether it exists and its lines.  last records the      *)
(* latest call: its name, how it ended, the exception and the number of    *)
(* batch items it had processed.  calls is the record SpecObs keeps of the *)
(* calls that changed one entity's observations.                           *)
(*                                                                         *)
(* Spec      one long-lived KnowledgeGraph instance and its file           *)
(* SpecTool  the tool functions, one fresh instance per call               *)
(* SpecFault the tool functions on a file system that may fail in _save    *)
(* SpecLoad  KnowledgeGraph() on a file with arbitrary lines               *)
(* SpecConc  two processes calling tool functions on the same file         *)
(* SpecObs   one entity, its observations and the calls made on them       *)
(* SpecRound _save and a fresh load on any in-memory graph                  *)
(* SpecRel   relations in both directions between two entities             *)
(* SpecOrder the tool functions on three entities, for the order of lists  *)
(* SpecQuery search_nodes and open_nodes on an instance                     *)
(* SpecEnv   the nine tool functions and their result envelopes            *)
(* SpecRead  tool functions on a file system that may fail in _load        *)
(* SpecDirty tool functions on a file that holds arbitrary lines           *)
(* SpecFrame the three query methods and the constructor, nothing else     *)
(* SpecTorn  one process inside _save, step by step, while another loads    *)
(* SpecThink the sessions of sequential_thinking.py                         *)
(***************************************************************************)
EXTENDS FiniteSets, Integers, Sequences, TLC

VARIABLES entities, relations, file, last, faults, proc, calls, _state_store

vars == <<entities, relations, file, last, faults, proc, calls, _state_store>>

(***************************************************************************)
(* Bounds of the model.                                                    *)
(***************************************************************************)
MaxBatch == 2
MaxObs == 2
MaxFaults == 1
MaxLines == 3

Names == {"A", "B"}
ObsVals == {"x"}

\* Sequences over S of length at most n.
BSeq(S, n) == UNION {[1..k -> S] : k \in 0..n}

Min(a, b) == IF a < b THEN a ELSE b

\* The set of the elements of a sequence.
Range(seq) == {seq[i] : i \in 1..Len(seq)}

\* Inputs of create_entities: a dict with name, entityType and, optionally,
\* observations (hasObs is FALSE when the key is omitted).
EntityInputs ==
    {[name |-> n, entityType |-> "t1", hasObs |-> FALSE, observations |-> <<>>] : n \in Names}
    \cup {[name |-> "A", entityType |-> "t2", hasObs |-> TRUE, observations |-> <<"x">>]}

\* Inputs of create_relations and delete_relations.
RelationInputs ==
    {[from |-> "A", to |-> "B", relationType |-> "r"],
     [from |-> "A", to |-> "B", relationType |-> "s"],
     [from |-> "A", to |-> "A", relationType |-> "r"]}

EntityBatches == BSeq(EntityInputs, MaxBatch)
RelationBatches == BSeq(RelationInputs, MaxBatch)
NameBatches == BSeq(Names, MaxBatch)
ObsBatches == BSeq(ObsVals, MaxBatch)

(***************************************************************************)
(* The store file.  A line is blank, or text that json.loads accepts       *)
(* (valid, with the decoded object obj), or text it rejects.               *)
(***************************************************************************)
NoObj == [type |-> "none"]
BlankLine == [blank |-> TRUE, valid |-> FALSE, obj |-> NoObj]
GarbageLine == [blank |-> FALSE, valid |-> FALSE, obj |-> NoObj]
JsonLine(o) == [blank |-> FALSE, valid |-> TRUE, obj |-> o]

NoFile == [exists |-> FALSE, lines |-> <<>>]
EmptyFile == [exists |-> TRUE, lines |-> <<>>]

\* dict membership: name in self.entities
HasEntity(ents, name) == \E i \in 1..Len(ents) : ents[i].name = name

\* Every relation has its two ends among the entities.
NoDangling(ents, rels) ==
    \A i \in 1..Len(rels) : HasEntity(ents, rels[i].from) /\ HasEntity(ents, rels[i].to)

\* self.entities[name] = value: a present key keeps its position, a new key
\* goes last.
DictSet(ents, e) ==
    IF HasEntity(ents, e.name)
    THEN [i \in 1..Len(ents) |-> IF ents[i].name = e.name THEN e ELSE ents[i]]
    ELSE Append(ents, e)

\* The three-field comparison of create_relations and delete_relations.
SameTriple(r, q) ==
    /\ r.from = q.from
    /\ r.to = q.to
    /\ r.relationType = q.relationType

\* The result of _load after the lines from i on, given the graph read so
\* far.  The try block encloses the whole loop: the first line json.loads
\* rejects ends the loop, and the lines after it are never read.
RECURSIVE LoadFrom(_, _, _, _)
LoadFrom(lines, i, ents, rels) ==
    IF i > Len(lines) THEN [entities |-> ents, relations |-> rels]
    ELSE LET line == lines[i] IN
         IF line.blank THEN LoadFrom(lines, i + 1, ents, rels)
         ELSE IF ~line.valid THEN [entities |-> ents, relations |-> rels]
         ELSE IF line.obj.type = "entity"
              THEN LoadFrom(lines, i + 1,
                            DictSet(ents, [name |-> line.obj.name,
                                           entityType |-> line.obj.entityType,
                                           observations |-> line.obj.observations]),
                            rels)
         ELSE IF line.obj.type = "relation"
              THEN LoadFrom(lines, i + 1, ents,
                            Append(rels, [from |-> line.obj.from,
                                          to |-> line.obj.to,
                                          relationType |-> line.obj.relationType]))
         ELSE LoadFrom(lines, i + 1, ents, rels)

\* KnowledgeGraph._load on a fresh instance.
_load(f) ==
    IF ~f.exists THEN [entities |-> <<>>, relations |-> <<>>]
    ELSE LoadFrom(f.lines, 1, <<>>, <<>>)

\* An entity record written without the entity's observations.
EntityLine_NoObservations(e) ==
    [blank |-> FALSE, valid |-> TRUE,
     obj |-> [type |-> "entity", name |-> e.name, entityType |-> e.entityType,
              observations |-> <<>>]]

\* The records _save writes: the entities in dict order, then the relations.
EntityLine(e) ==
    JsonLine([type |-> "entity", name |-> e.name, entityType |-> e.entityType,
              observations |-> e.observations])

RelationLine(r) ==
    JsonLine([type |-> "relation", from |-> r.from, to |-> r.to,
              relationType |-> r.relationType])

\* A _save that writes the entities last first.
SaveLines_Reversed(ents, rels) ==
    [i \in 1..(Len(ents) + Len(rels)) |->
        IF i <= Len(ents) THEN EntityLine(ents[Len(ents) + 1 - i])
        ELSE RelationLine(rels[i - Len(ents)])]

SaveLines(ents, rels) ==
    [i \in 1..(Len(ents) + Len(rels)) |->
        IF i <= Len(ents) THEN EntityLine(ents[i]) ELSE RelationLine(rels[i - Len(ents)])]

(***************************************************************************)
(* Outcomes of the file system during one _save: "ok"; "open" (open()      *)
(* raises, the file is untouched); "write" (an error after open(..., 'w')  *)
(* truncated the file: only the first `written` records reached the file,  *)
(* and when torn, so did a part of the next one).                          *)
(***************************************************************************)
IoOk == [kind |-> "ok", written |-> 0, torn |-> FALSE]
IoOpenFails == [kind |-> "open", written |-> 0, torn |-> FALSE]
IoWriteFails(k, t) == [kind |-> "write", written |-> k, torn |-> t]

\* A _save that opens the file in append mode.
_save_Append(ents, rels, f, io) ==
    [file |-> [exists |-> TRUE, lines |-> f.lines \o SaveLines(ents, rels)], err |-> "none"]

\* KnowledgeGraph._save: the file afterwards and whether it raised.
_save(ents, rels, f, io) ==
    LET all == SaveLines(ents, rels)
        k == Min(io.written, Len(all))
    IN  IF io.kind = "ok" THEN [file |-> [exists |-> TRUE, lines |-> all], err |-> "none"]
        ELSE IF io.kind = "open" THEN [file |-> f, err |-> "PersistenceFailure"]
        ELSE [file |-> [exists |-> TRUE,
                        lines |-> IF io.torn /\ k < Len(all)
                                  THEN Append(SubSeq(all, 1, k), GarbageLine)
                                  ELSE SubSeq(all, 1, k)],
              err |-> "PersistenceFailure"]

\* What a method call leaves behind: the instance's graph, the file, the
\* exception raised ("none" when it returned) and the number of batch items
\* processed before that.
Outcome(ents, rels, f, err, done) ==
    [entities |-> ents, relations |-> rels, file |-> f, err |-> err, done |-> done]

Saved(ents, rels, f, io, done) ==
    LET s == _save(ents, rels, f, io)
    IN  Outcome(ents, rels, s.file, s.err, done)

\* The value create_entities stores for an input: entity.get('observations', [])
\* gives the empty list when the key is omitted.
NewEntity(e) ==
    [name |-> e.name, entityType |-> e.entityType,
     observations |-> IF e.hasObs THEN e.observations ELSE <<>>]

\* A loop without the membership test: a present name is overwritten.
RECURSIVE CreateEntitiesFrom_Upsert(_, _, _)
CreateEntitiesFrom_Upsert(ents, batch, i) ==
    IF i > Len(batch) THEN [entities |-> ents, err |-> "none", done |-> Len(batch)]
    ELSE CreateEntitiesFrom_Upsert(DictSet(ents, NewEntity(batch[i])), batch, i + 1)

\* The loop of KnowledgeGraph.create_entities from item i on.
RECURSIVE CreateEntitiesFrom(_, _, _)
CreateEntitiesFrom(ents, batch, i) ==
    IF i > Len(batch) THEN [entities |-> ents, err |-> "none", done |-> Len(batch)]
    ELSE IF HasEntity(ents, batch[i].name)
         THEN [entities |-> ents, err |-> "DuplicateEntity", done |-> i - 1]
         ELSE CreateEntitiesFrom(DictSet(ents, NewEntity(batch[i])), batch, i + 1)

\* A create_entities that saves after every insertion.
KG_create_entities_SaveEach(ents, rels, f, batch, io) ==
    LET r == CreateEntitiesFrom(ents, batch, 1)
    IN  IF r.err # "none"
        THEN Outcome(r.entities, rels,
                     IF r.done > 0 THEN _save(r.entities, rels, f, io).file ELSE f,
                     r.err, r.done)
        ELSE Saved(r.entities, rels, f, io, r.done)

\* A create_entities that undoes the insertions of a batch that fails.
KG_create_entities_Rollback(ents, rels, f, batch, io) ==
    LET r == CreateEntitiesFrom(ents, batch, 1)
    IN  IF r.err # "none" THEN Outcome(ents, rels, f, r.err, r.done)
        ELSE Saved(r.entities, rels, f, io, r.done)

KG_create_entities(ents, rels, f, batch, io) ==
    LET r == CreateEntitiesFrom(ents, batch, 1)
    IN  IF r.err # "none" THEN Outcome(r.entities, rels, f, r.err, r.done)
        ELSE Saved(r.entities, rels, f, io, r.done)

\* A duplicate check that sees only the relations stored before the call, not
\* the ones the same batch appended.
RECURSIVE CreateRelationsFrom_StoredOnly(_, _, _, _)
CreateRelationsFrom_StoredOnly(ents, rels, batch, i) ==
    IF i > Len(batch) THEN [relations |-> rels, err |-> "none", done |-> Len(batch)]
    ELSE IF ~HasEntity(ents, batch[i].from) \/ ~HasEntity(ents, batch[i].to)
         THEN [relations |-> rels, err |-> "EntityNotFound", done |-> i - 1]
    ELSE IF \E j \in 1..(Len(rels) - (i - 1)) : SameTriple(rels[j], batch[i])
         THEN [relations |-> rels, err |-> "DuplicateRelation", done |-> i - 1]
    ELSE CreateRelationsFrom_StoredOnly(ents, Append(rels, batch[i]), batch, i + 1)

\* A loop that looks up the source of a relation and forgets its target.
RECURSIVE CreateRelationsFrom_SourceOnly(_, _, _, _)
CreateRelationsFrom_SourceOnly(ents, rels, batch, i) ==
    IF i > Len(batch) THEN [relations |-> rels, err |-> "none", done |-> Len(batch)]
    ELSE IF ~HasEntity(ents, batch[i].from)
         THEN [relations |-> rels, err |-> "EntityNotFound", done |-> i - 1]
    ELSE IF \E j \in 1..Len(rels) : SameTriple(rels[j], batch[i])
         THEN [relations |-> rels, err |-> "DuplicateRelation", done |-> i - 1]
    ELSE CreateRelationsFrom_SourceOnly(ents, Append(rels, batch[i]), batch, i + 1)

\* The loop of KnowledgeGraph.create_relations from item i on: both
\* endpoints are looked up before the triple is compared with the stored ones.
RECURSIVE CreateRelationsFrom(_, _, _, _)
CreateRelationsFrom(ents, rels, batch, i) ==
    IF i > Len(batch) THEN [relations |-> rels, err |-> "none", done |-> Len(batch)]
    ELSE IF ~HasEntity(ents, batch[i].from) \/ ~HasEntity(ents, batch[i].to)
         THEN [relations |-> rels, err |-> "EntityNotFound", done |-> i - 1]
    ELSE IF \E j \in 1..Len(rels) : SameTriple(rels[j], batch[i])
         THEN [relations |-> rels, err |-> "DuplicateRelation", done |-> i - 1]
    ELSE CreateRelationsFrom(ents, Append(rels, batch[i]), batch, i + 1)

\* A create_relations that appends the batch without looking at the graph.
KG_create_relations_Unchecked(ents, rels, f, batch, io) ==
    Saved(ents, rels \o batch, f, io, Len(batch))

KG_create_relations(ents, rels, f, batch, io) ==
    LET r == CreateRelationsFrom(ents, rels, batch, 1)
    IN  IF r.err # "none" THEN Outcome(ents, r.relations, f, r.err, r.done)
        ELSE Saved(ents, r.relations, f, io, r.done)

\* self.entities[name]['observations']
ObservationsOf(ents, name) ==
    LET i == CHOOSE k \in 1..Len(ents) : ents[k].name = name IN ents[i].observations

\* list.extend on the observations of the entity called name.
ExtendObservations(ents, name, obs) ==
    [i \in 1..Len(ents) |->
        IF ents[i].name = name
        THEN [ents[i] EXCEPT !.observations = @ \o obs]
        ELSE ents[i]]

\* An add_observations that makes the entity when it is not there.
KG_add_observations_Upsert(ents, rels, f, name, obs, io) ==
    IF ~HasEntity(ents, name)
    THEN Saved(Append(ents, [name |-> name, entityType |-> "t1", observations |-> obs]),
               rels, f, io, Len(obs))
    ELSE Saved(ExtendObservations(ents, name, obs), rels, f, io, Len(obs))

\* An add_observations that forgets self._save().
KG_add_observations_NoSave(ents, rels, f, name, obs, io) ==
    IF ~HasEntity(ents, name) THEN Outcome(ents, rels, f, "EntityNotFound", 0)
    ELSE Outcome(ExtendObservations(ents, name, obs), rels, f, "none", Len(obs))

KG_add_observations(ents, rels, f, name, obs, io) ==
    IF ~HasEntity(ents, name) THEN Outcome(ents, rels, f, "EntityNotFound", 0)
    ELSE Saved(ExtendObservations(ents, name, obs), rels, f, io, Len(obs))

\* del self.entities[name]
DictDel(ents, name) ==
    LET Other(e) == e.name # name IN SelectSeq(ents, Other)

\* A cascade that looks at the source of a relation only.
WithoutEntity_FromOnly(rels, name) ==
    LET Untouched(r) == r.from # name IN SelectSeq(rels, Untouched)

\* The relations delete_entities keeps when name goes.
WithoutEntity(rels, name) ==
    LET Untouched(r) == r.from # name /\ r.to # name IN SelectSeq(rels, Untouched)

\* A loop that returns after the first name it finds.
RECURSIVE DeleteEntitiesFrom_StopAfterFirst(_, _, _, _)
DeleteEntitiesFrom_StopAfterFirst(ents, rels, names, i) ==
    IF i > Len(names) THEN [entities |-> ents, relations |-> rels]
    ELSE IF HasEntity(ents, names[i])
         THEN [entities |-> DictDel(ents, names[i]),
               relations |-> WithoutEntity(rels, names[i])]
         ELSE DeleteEntitiesFrom_StopAfterFirst(ents, rels, names, i + 1)

\* The loop of KnowledgeGraph.delete_entities from item i on.
RECURSIVE DeleteEntitiesFrom(_, _, _, _)
DeleteEntitiesFrom(ents, rels, names, i) ==
    IF i > Len(names) THEN [entities |-> ents, relations |-> rels]
    ELSE IF HasEntity(ents, names[i])
         THEN DeleteEntitiesFrom(DictDel(ents, names[i]), WithoutEntity(rels, names[i]),
                                 names, i + 1)
         ELSE DeleteEntitiesFrom(ents, rels, names, i + 1)

\* A delete_entities that raises for a name that is not in the store.
KG_delete_entities_Strict(ents, rels, f, names, io) ==
    IF \E i \in 1..Len(names) :
           \/ ~HasEntity(ents, names[i])
           \/ \E j \in 1..(i - 1) : names[j] = names[i]
    THEN Outcome(ents, rels, f, "EntityNotFound", 0)
    ELSE LET r == DeleteEntitiesFrom(ents, rels, names, 1)
         IN  Saved(r.entities, r.relations, f, io, Len(names))

KG_delete_entities(ents, rels, f, names, io) ==
    LET r == DeleteEntitiesFrom(ents, rels, names, 1)
    IN  Saved(r.entities, r.relations, f, io, Len(names))

\* A delete_observations that removes the first occurrence of each string
\* only, as list.remove would.
RECURSIVE RemoveFirst(_, _)
RemoveFirst(seq, v) ==
    IF seq = <<>> THEN <<>>
    ELSE IF Head(seq) = v THEN Tail(seq)
    ELSE <<Head(seq)>> \o RemoveFirst(Tail(seq), v)

RECURSIVE RemoveFirstOfEach(_, _, _)
RemoveFirstOfEach(seq, obs, j) ==
    IF j > Len(obs) THEN seq ELSE RemoveFirstOfEach(RemoveFirst(seq, obs[j]), obs, j + 1)

WithoutObservations_FirstOccurrence(ents, name, obs) ==
    [i \in 1..Len(ents) |->
        IF ents[i].name = name
        THEN [ents[i] EXCEPT !.observations = RemoveFirstOfEach(@, obs, 1)]
        ELSE ents[i]]

\* A delete_observations that looks for the first string of the list only.
WithoutObservations_FirstStringOnly(ents, name, obs) ==
    LET Kept(o) == obs = <<>> \/ obs[1] # o
    IN  [i \in 1..Len(ents) |->
            IF ents[i].name = name
            THEN [ents[i] EXCEPT !.observations = SelectSeq(@, Kept)]
            ELSE ents[i]]

\* The observations delete_observations keeps.
WithoutObservations(ents, name, obs) ==
    LET Kept(o) == \A j \in 1..Len(obs) : obs[j] # o
    IN  [i \in 1..Len(ents) |->
            IF ents[i].name = name
            THEN [ents[i] EXCEPT !.observations = SelectSeq(@, Kept)]
            ELSE ents[i]]

KG_delete_observations(ents, rels, f, name, obs, io) ==
    IF ~HasEntity(ents, name) THEN Outcome(ents, rels, f, "EntityNotFound", 0)
    ELSE Saved(WithoutObservations(ents, name, obs), rels, f, io, Len(obs))

\* A delete_relations that takes a relation between the same two entities
\* whichever way round it goes.
RECURSIVE DeleteRelationsFrom_AnyDirection(_, _, _)
DeleteRelationsFrom_AnyDirection(rels, batch, i) ==
    IF i > Len(batch) THEN rels
    ELSE LET Differs(r) ==
                 /\ ~SameTriple(r, batch[i])
                 /\ ~SameTriple(r, [from |-> batch[i].to, to |-> batch[i].from,
                                    relationType |-> batch[i].relationType])
         IN  DeleteRelationsFrom_AnyDirection(SelectSeq(rels, Differs), batch, i + 1)

\* The loop of KnowledgeGraph.delete_relations from item i on.
RECURSIVE DeleteRelationsFrom(_, _, _)
DeleteRelationsFrom(rels, batch, i) ==
    IF i > Len(batch) THEN rels
    ELSE LET Differs(r) == ~SameTriple(r, batch[i])
         IN  DeleteRelationsFrom(SelectSeq(rels, Differs), batch, i + 1)

KG_delete_relations(ents, rels, f, batch, io) ==
    Saved(ents, DeleteRelationsFrom(rels, batch, 1), f, io, Len(batch))

\* KnowledgeGraph.read_graph: the entities in dict order and the relation list.
KG_read_graph(ents, rels) == [entities |-> ents, relations |-> rels]

(***************************************************************************)
(* The query methods.  Where a method looks inside a string (search_nodes) *)
(* the string is the sequence of its characters; the characters here are   *)
(* ASCII letters, on which str.lower() works letter by letter.             *)
(***************************************************************************)
LowerChar(c) == IF c = "A" THEN "a" ELSE IF c = "B" THEN "b" ELSE c

\* str.lower()
Lower(str) == [i \in 1..Len(str) |-> LowerChar(str[i])]

\* sub in str: the empty string is in every string.
Contains(sub, str) ==
    \E i \in 0..(Len(str) - Len(sub)) : SubSeq(str, i + 1, i + Len(sub)) = sub

\* The loop over data['observations']: does any of them hold the query?
AnyObservation(q, obs) == \E j \in 1..Len(obs) : Contains(q, Lower(obs[j]))

SearchResult(e, match) ==
    [name |-> e.name, entityType |-> e.entityType, observations |-> e.observations,
     match |-> match]

\* An observation loop without its break: one result for every observation
\* that holds the query.
RECURSIVE SearchFrom_NoBreak(_, _, _)
SearchFrom_NoBreak(ents, q, i) ==
    IF i > Len(ents) THEN <<>>
    ELSE LET e == ents[i]
             Hit(o) == Contains(q, Lower(o))
             rest == SearchFrom_NoBreak(ents, q, i + 1)
         IN  IF Contains(q, Lower(e.name)) THEN <<SearchResult(e, "name")>> \o rest
             ELSE IF Contains(q, Lower(e.entityType)) THEN <<SearchResult(e, "type")>> \o rest
             ELSE [k \in 1..Len(SelectSeq(e.observations, Hit)) |->
                      SearchResult(e, "observation")] \o rest

\* The loop of KnowledgeGraph.search_nodes from entity i on; q is the query
\* in lower case.
RECURSIVE SearchFrom(_, _, _)
SearchFrom(ents, q, i) ==
    IF i > Len(ents) THEN <<>>
    ELSE LET e == ents[i]
             rest == SearchFrom(ents, q, i + 1)
         IN  IF Contains(q, Lower(e.name)) THEN <<SearchResult(e, "name")>> \o rest
             ELSE IF Contains(q, Lower(e.entityType)) THEN <<SearchResult(e, "type")>> \o rest
             ELSE IF AnyObservation(q, e.observations)
                  THEN <<SearchResult(e, "observation")>> \o rest
             ELSE rest

KG_search_nodes(ents, query) == SearchFrom(ents, Lower(query), 1)

\* self.entities[name]
EntityOf(ents, name) == ents[CHOOSE k \in 1..Len(ents) : ents[k].name = name]

\* An open_nodes whose relations_to is filled by the test of relations_from.
RECURSIVE OpenFrom_ToIsFrom(_, _, _, _)
OpenFrom_ToIsFrom(ents, rels, names, i) ==
    IF i > Len(names) THEN <<>>
    ELSE IF ~HasEntity(ents, names[i]) THEN OpenFrom_ToIsFrom(ents, rels, names, i + 1)
    ELSE LET e == EntityOf(ents, names[i])
             From(r) == r.from = names[i]
         IN  <<[name |-> names[i], entityType |-> e.entityType,
                observations |-> e.observations,
                relations_from |-> SelectSeq(rels, From),
                relations_to |-> SelectSeq(rels, From)]>>
             \o OpenFrom_ToIsFrom(ents, rels, names, i + 1)

\* The loop of KnowledgeGraph.open_nodes from name i on.
RECURSIVE OpenFrom(_, _, _, _)
OpenFrom(ents, rels, names, i) ==
    IF i > Len(names) THEN <<>>
    ELSE IF ~HasEntity(ents, names[i]) THEN OpenFrom(ents, rels, names, i + 1)
    ELSE LET e == EntityOf(ents, names[i])
             From(r) == r.from = names[i]
             To(r) == r.to = names[i]
         IN  <<[name |-> names[i], entityType |-> e.entityType,
                observations |-> e.observations,
                relations_from |-> SelectSeq(rels, From),
                relations_to |-> SelectSeq(rels, To)]>>
             \o OpenFrom(ents, rels, names, i + 1)

KG_open_nodes(ents, rels, names) == OpenFrom(ents, rels, names, 1)

\* The processes of SpecConc; the other specifications have none.
Procs == {"P", "Q"}
NoProcs == <<>>

\* The calls SpecObs keeps a record of; the other specifications keep none.
NoCalls == <<>>

(***************************************************************************)
(* sequential_thinking.py: the module-level dict _state_store of sessions. *)
(* An optional argument is <<>> for None and <<v>> for the value v.  The   *)
(* dict is a function over the keys with a flag for the keys it holds;     *)
(* state.branches is a function over the branch ids, and a branch is in    *)
(* the dict when its list is not empty (a list is created to be appended   *)
(* to at once).                                                            *)
(***************************************************************************)
None == <<>>
Some(v) == <<v>>
SessionKeys == {"default", "s1"}
BranchKeys == {"b1", "b2"}
NoBranches == [b \in BranchKeys |-> <<>>]

\* SequentialThinkingState(sessionId=session_id)
SequentialThinkingState(session_id) ==
    [thoughtHistory |-> <<>>, branches |-> NoBranches, currentBranch |-> "main",
     sessionId |-> session_id]

NoSessions == [k \in SessionKeys |-> [exists |-> FALSE, state |-> SequentialThinkingState(k)]]

(***************************************************************************)
(* Actions on one long-lived KnowledgeGraph instance (Spec).  Here the     *)
(* file system never fails: every _save that is reached completes.         *)
(***************************************************************************)
Returned(op, o) ==
    /\ entities' = o.entities
    /\ relations' = o.relations
    /\ file' = o.file
    /\ last' = [op |-> op, status |-> IF o.err = "none" THEN "returned" ELSE "raised",
                 err |-> o.err, done |-> o.done]
    /\ UNCHANGED <<faults, proc, calls, _state_store>>

ObsFit(ents) == \A i \in 1..Len(ents) : Len(ents[i].observations) <= MaxObs

CreateEntities ==
    \E batch \in EntityBatches :
        Returned("create_entities",
                 KG_create_entities(entities, relations, file, batch, IoOk))

CreateRelations ==
    \E batch \in RelationBatches :
        Returned("create_relations",
                 KG_create_relations(entities, relations, file, batch, IoOk))

AddObservations ==
    \E name \in Names, obs \in ObsBatches :
        /\ ObsFit(ExtendObservations(entities, name, obs))
        /\ Returned("add_observations",
                    KG_add_observations(entities, relations, file, name, obs, IoOk))

DeleteEntities ==
    \E names \in NameBatches :
        Returned("delete_entities",
                 KG_delete_entities(entities, relations, file, names, IoOk))

DeleteObservations ==
    \E name \in Names, obs \in ObsBatches :
        Returned("delete_observations",
                 KG_delete_observations(entities, relations, file, name, obs, IoOk))

DeleteRelations ==
    \E batch \in RelationBatches :
        Returned("delete_relations",
                 KG_delete_relations(entities, relations, file, batch, IoOk))

ReadGraph ==
    /\ last' = [op |-> "read_graph", status |-> "returned", err |-> "none", done |-> 0]
    /\ UNCHANGED <<entities, relations, file, faults, proc, calls, _state_store>>

\* KnowledgeGraph.__init__: a new instance on the same file replaces the old.
Reopen ==
    /\ entities' = _load(file).entities
    /\ relations' = _load(file).relations
    /\ last' = [op |-> "init", status |-> "returned", err |-> "none", done |-> 0]
    /\ UNCHANGED <<file, faults, proc, calls, _state_store>>

Init ==
    /\ file \in {NoFile, EmptyFile}
    /\ entities = _load(file).entities
    /\ relations = _load(file).relations
    /\ last = [op |-> "init", status |-> "returned", err |-> "none", done |-> 0]
    /\ faults = 0
    /\ proc = NoProcs
    /\ calls = NoCalls
    /\ _state_store = NoSessions

Next ==
    \/ CreateEntities
    \/ CreateRelations
    \/ AddObservations
    \/ DeleteEntities
    \/ DeleteObservations
    \/ DeleteRelations
    \/ ReadGraph
    \/ Reopen

Spec == Init /\ [][Next]_vars

(***************************************************************************)
(* The tool functions (SpecTool).  Each call builds its own KnowledgeGraph *)
(* from the file, calls the method and turns any exception into an error   *)
(* result; no instance outlives the call.  faults is the number of saves   *)
(* that may still meet a failing file system: none under SpecTool, up to   *)
(* MaxFaults under SpecFault.                                              *)
(***************************************************************************)
Io(n) == {IoOk, IoOpenFails} \cup {IoWriteFails(k, t) : k \in 0..(n - 1), t \in BOOLEAN}

\* The outcomes the file system may show to a call that would end as o does
\* when nothing fails.
IoFor(o) ==
    IF faults = 0 \/ o.err # "none" THEN {IoOk} ELSE Io(Len(o.file.lines))

\* A try/except that catches ValueError only: the exception _save raises
\* is a plain Exception and goes through to the caller.
Envelope_ValueErrorOnly(tool, o) ==
    [tool |-> tool,
     status |-> IF o.err = "none" THEN "success"
                ELSE IF o.err = "PersistenceFailure" THEN "raised" ELSE "error",
     message |-> o.err,
     done |-> o.done,
     file |-> o.file]

\* The try/except of a tool function around the method's outcome o: the
\* result dict, with the file as the call leaves it and, for the record, the
\* number of items the method had processed.
Envelope(tool, o) ==
    [tool |-> tool,
     status |-> IF o.err = "none" THEN "success" ELSE "error",
     message |-> o.err,
     done |-> o.done,
     file |-> o.file]

create_entities(f, batch, io) ==
    LET graph == _load(f)
    IN  Envelope("create_entities",
                 KG_create_entities(graph.entities, graph.relations, f, batch, io))

create_relations(f, batch, io) ==
    LET graph == _load(f)
    IN  Envelope("create_relations",
                 KG_create_relations(graph.entities, graph.relations, f, batch, io))

add_observations(f, name, obs, io) ==
    LET graph == _load(f)
    IN  Envelope("add_observations",
                 KG_add_observations(graph.entities, graph.relations, f, name, obs, io))

delete_entities(f, names, io) ==
    LET graph == _load(f)
    IN  Envelope("delete_entities",
                 KG_delete_entities(graph.entities, graph.relations, f, names, io))

delete_observations(f, name, obs, io) ==
    LET graph == _load(f)
    IN  Envelope("delete_observations",
                 KG_delete_observations(graph.entities, graph.relations, f, name, obs, io))

delete_relations(f, batch, io) ==
    LET graph == _load(f)
    IN  Envelope("delete_relations",
                 KG_delete_relations(graph.entities, graph.relations, f, batch, io))

read_graph(f) ==
    LET graph == _load(f)
    IN  [tool |-> "read_graph", status |-> "success", message |-> "none", done |-> 0,
         file |-> f,
         graph |-> KG_read_graph(graph.entities, graph.relations)]

search_nodes(f, query) ==
    LET graph == _load(f)
        results == KG_search_nodes(graph.entities, query)
    IN  [tool |-> "search_nodes", status |-> "success", message |-> "none",
         done |-> Len(results), file |-> f, results |-> results]

open_nodes(f, names) ==
    LET graph == _load(f)
        results == KG_open_nodes(graph.entities, graph.relations, names)
    IN  [tool |-> "open_nodes", status |-> "success", message |-> "none",
         done |-> Len(results), file |-> f, results |-> results]

ToolReturned(r) ==
    /\ file' = r.file
    /\ last' = [op |-> r.tool, status |-> r.status, err |-> r.message, done |-> r.done]
    /\ faults' = IF r.message = "PersistenceFailure" THEN faults - 1 ELSE faults
    /\ UNCHANGED <<entities, relations, proc, calls, _state_store>>

ToolCreateEntities ==
    \E batch \in EntityBatches :
      \E io \in IoFor(KG_create_entities(_load(file).entities, _load(file).relations,
                                         file, batch, IoOk)) :
        ToolReturned(create_entities(file, batch, io))

ToolCreateRelations ==
    \E batch \in RelationBatches :
      \E io \in IoFor(KG_create_relations(_load(file).entities, _load(file).relations,
                                          file, batch, IoOk)) :
        ToolReturned(create_relations(file, batch, io))

ToolAddObservations ==
    \E name \in Names, obs \in ObsBatches :
      \E io \in IoFor(KG_add_observations(_load(file).entities, _load(file).relations,
                                          file, name, obs, IoOk)) :
        /\ ObsFit(ExtendObservations(_load(file).entities, name, obs))
        /\ ToolReturned(add_observations(file, name, obs, io))

ToolDeleteEntities ==
    \E names \in NameBatches :
      \E io \in IoFor(KG_delete_entities(_load(file).entities, _load(file).relations,
                                         file, names, IoOk)) :
        ToolReturned(delete_entities(file, names, io))

ToolDeleteObservations ==
    \E name \in Names, obs \in ObsBatches :
      \E io \in IoFor(KG_delete_observations(_load(file).entities, _load(file).relations,
                                             file, name, obs, IoOk)) :
        ToolReturned(delete_observations(file, name, obs, io))

ToolDeleteRelations ==
    \E batch \in RelationBatches :
      \E io \in IoFor(KG_delete_relations(_load(file).entities, _load(file).relations,
                                          file, batch, IoOk)) :
        ToolReturned(delete_relations(file, batch, io))

ToolReadGraph == ToolReturned(read_graph(file))

InitTool ==
    /\ file \in {NoFile, EmptyFile}
    /\ entities = <<>>
    /\ relations = <<>>
    /\ last = [op |-> "none", status |-> "none", err |-> "none", done |-> 0]
    /\ faults = 0
    /\ proc = NoProcs
    /\ calls = NoCalls
    /\ _state_store = NoSessions

NextTool ==
    \/ ToolCreateEntities
    \/ ToolCreateRelations
    \/ ToolAddObservations
    \/ ToolDeleteEntities
    \/ ToolDeleteObservations
    \/ ToolDeleteRelations
    \/ ToolReadGraph

SpecTool == InitTool /\ [][NextTool]_vars

InitFault ==
    /\ file \in {NoFile, EmptyFile}
    /\ entities = <<>>
    /\ relations = <<>>
    /\ last = [op |-> "none", status |-> "none", err |-> "none", done |-> 0]
    /\ faults = MaxFaults
    /\ proc = NoProcs
    /\ calls = NoCalls
    /\ _state_store = NoSessions

SpecFault == InitFault /\ [][NextTool]_vars

(***************************************************************************)
(* Loading a file that did not come from _save (SpecLoad): any lines, and  *)
(* then KnowledgeGraph() on it.  GarbageLine stands for every line on      *)
(* which the loop body of _load raises.                                    *)
(***************************************************************************)
LineInputs ==
    {BlankLine, GarbageLine, JsonLine([type |-> "comment"]),
     EntityLine([name |-> "A", entityType |-> "t1", observations |-> <<>>]),
     EntityLine([name |-> "A", entityType |-> "t2", observations |-> <<"x">>]),
     EntityLine([name |-> "B", entityType |-> "t1", observations |-> <<>>]),
     RelationLine([from |-> "A", to |-> "B", relationType |-> "r"])}

InitLoad ==
    /\ file \in {[exists |-> TRUE, lines |-> ls] : ls \in BSeq(LineInputs, MaxLines)}
    /\ entities = <<>>
    /\ relations = <<>>
    /\ last = [op |-> "none", status |-> "none", err |-> "none", done |-> 0]
    /\ faults = 0
    /\ proc = NoProcs
    /\ calls = NoCalls
    /\ _state_store = NoSessions

SpecLoad == InitLoad /\ [][Reopen]_vars

\* Tool calls on a file somebody else wrote or edited: any lines at first.
SpecDirty == InitLoad /\ [][NextTool]_vars

(***************************************************************************)
(* Two processes calling tool functions on the same file with nothing to   *)
(* serialize them (SpecConc).  A call is two steps: KnowledgeGraph() loads *)
(* the file, then the method changes the process's own graph and saves.    *)
(* proc[p] holds p's graph, the method it ran last and how it ended, and   *)
(* stale: whether another process saved after p's load.                    *)
(***************************************************************************)
ConcEntityBatches ==
    {<<[name |-> n, entityType |-> "t1", hasObs |-> FALSE, observations |-> <<>>]>> :
        n \in Names}
ConcRelationBatches == {<<[from |-> "A", to |-> "B", relationType |-> "r"]>>}
ConcNameBatches == {<<n>> : n \in Names}
ConcObsBatches == {<<"x">>}

ConcLoad(p) ==
    /\ proc[p].pc = "idle"
    /\ proc' = [proc EXCEPT ![p] = [pc |-> "loaded",
                                    entities |-> _load(file).entities,
                                    relations |-> _load(file).relations,
                                    op |-> "init", err |-> "none", stale |-> FALSE]]
    /\ UNCHANGED <<entities, relations, file, last, faults, calls, _state_store>>

\* The method's outcome o reaches the file and p's graph; a save makes the
\* graph of every process still between its load and its save stale.
ConcReturned(p, op, o) ==
    /\ file' = o.file
    /\ proc' = [q \in Procs |->
                  IF q = p
                  THEN [pc |-> "idle", entities |-> o.entities, relations |-> o.relations,
                        op |-> op, err |-> o.err, stale |-> proc[p].stale]
                  ELSE IF proc[q].pc = "loaded" /\ o.err = "none"
                       THEN [proc[q] EXCEPT !.stale = TRUE]
                       ELSE proc[q]]
    /\ UNCHANGED <<entities, relations, last, faults, calls, _state_store>>

ConcCall(p) ==
    /\ proc[p].pc = "loaded"
    /\ LET ents == proc[p].entities
           rels == proc[p].relations
       IN  \/ \E batch \in ConcEntityBatches :
                ConcReturned(p, "create_entities",
                             KG_create_entities(ents, rels, file, batch, IoOk))
           \/ \E batch \in ConcRelationBatches :
                ConcReturned(p, "create_relations",
                             KG_create_relations(ents, rels, file, batch, IoOk))
           \/ \E name \in Names, obs \in ConcObsBatches :
                /\ ObsFit(ExtendObservations(ents, name, obs))
                /\ ConcReturned(p, "add_observations",
                                KG_add_observations(ents, rels, file, name, obs, IoOk))
           \/ \E names \in ConcNameBatches :
                ConcReturned(p, "delete_entities",
                             KG_delete_entities(ents, rels, file, names, IoOk))
           \/ \E name \in Names, obs \in ConcObsBatches :
                ConcReturned(p, "delete_observations",
                             KG_delete_observations(ents, rels, file, name, obs, IoOk))
           \/ \E batch \in ConcRelationBatches :
                ConcReturned(p, "delete_relations",
                             KG_delete_relations(ents, rels, file, batch, IoOk))

InitConc ==
    /\ file \in {NoFile, EmptyFile}
    /\ entities = <<>>
    /\ relations = <<>>
    /\ last = [op |-> "none", status |-> "none", err |-> "none", done |-> 0]
    /\ faults = 0
    /\ calls = NoCalls
    /\ _state_store = NoSessions
    /\ proc = [p \in Procs |-> [pc |-> "idle", entities |-> <<>>, relations |-> <<>>,
                                op |-> "none", err |-> "none", stale |-> FALSE]]

NextConc ==
    \/ \E p \in Procs : ConcLoad(p)
    \/ \E p \in Procs : ConcCall(p)

SpecConc == InitConc /\ [][NextConc]_vars

(***************************************************************************)
(* _save step by step (SpecTorn).  A writer process runs tool calls; its   *)
(* _save is open(file_path, 'w'), which truncates the file, then one write *)
(* per record, then the close that ends the with block.  What was written  *)
(* reaches the file record by record or, when buffered, at the close.  A   *)
(* reader process loads the file at any moment; entities and relations    *)
(* are the reader's graph.  proc is the writer: where it stands, its graph,*)
(* the records that reached the file and the graph the file held before    *)
(* the open.  calls is the set of graphs the file has held in full: the    *)
(* first content and every save whose last record reached the file.        *)
(***************************************************************************)
TornEntityBatches ==
    ConcEntityBatches \cup
    {<<[name |-> "A", entityType |-> "t1", hasObs |-> FALSE, observations |-> <<>>],
       [name |-> "B", entityType |-> "t1", hasObs |-> FALSE, observations |-> <<>>]>>}

Graph(ents, rels) == [entities |-> ents, relations |-> rels]

\* KnowledgeGraph() and the method up to its call of _save, for the methods
\* that reach it: the writer holds the changed graph, the file is as it was.
TornMutated(ents, rels) ==
    /\ proc' = [pc |-> "mutated", entities |-> ents, relations |-> rels, written |-> 0,
                 before |-> _load(file)]
    /\ UNCHANGED <<entities, relations, file, last, faults, calls, _state_store>>

TornCall ==
    /\ proc.pc = "idle"
    /\ LET ents == _load(file).entities
           rels == _load(file).relations
       IN  \/ \E batch \in TornEntityBatches :
                LET r == CreateEntitiesFrom(ents, batch, 1)
                IN  r.err = "none" /\ TornMutated(r.entities, rels)
           \/ \E batch \in ConcRelationBatches :
                LET r == CreateRelationsFrom(ents, rels, batch, 1)
                IN  r.err = "none" /\ TornMutated(ents, r.relations)
           \/ \E names \in ConcNameBatches :
                LET r == DeleteEntitiesFrom(ents, rels, names, 1)
                IN  TornMutated(r.entities, r.relations)

\* open(self.file_path, 'w'): the file exists and is empty.
TornOpen ==
    /\ proc.pc = "mutated"
    /\ file' = EmptyFile
    /\ proc' = [proc EXCEPT !.pc = "open"]
    /\ UNCHANGED <<entities, relations, last, faults, calls, _state_store>>

\* One more record reaches the file.
TornWrite ==
    /\ proc.pc = "open"
    /\ proc.written < Len(SaveLines(proc.entities, proc.relations))
    /\ file' = [exists |-> TRUE,
                lines |-> SubSeq(SaveLines(proc.entities, proc.relations),
                                 1, proc.written + 1)]
    /\ proc' = [proc EXCEPT !.written = @ + 1]
    /\ calls' = IF proc.written + 1 = Len(SaveLines(proc.entities, proc.relations))
                THEN calls \cup {Graph(proc.entities, proc.relations)}
                ELSE calls
    /\ UNCHANGED <<entities, relations, last, faults, _state_store>>

\* The end of the with block: whatever was still buffered reaches the file.
TornClose ==
    /\ proc.pc = "open"
    /\ file' = [exists |-> TRUE, lines |-> SaveLines(proc.entities, proc.relations)]
    /\ proc' = [proc EXCEPT !.pc = "idle"]
    /\ calls' = calls \cup {Graph(proc.entities, proc.relations)}
    /\ UNCHANGED <<entities, relations, last, faults, _state_store>>

\* KnowledgeGraph() in the reader process; during is where the writer stood,
\* before the graph the file held when the writer's last open came, and
\* saving the graph that the writer's save writes.
TornLoad ==
    /\ entities' = _load(file).entities
    /\ relations' = _load(file).relations
    /\ last' = [op |-> "init", status |-> "returned", err |-> "none", done |-> 0,
                during |-> proc.pc, before |-> proc.before,
                saving |-> Graph(proc.entities, proc.relations)]
    /\ UNCHANGED <<file, faults, proc, calls, _state_store>>

InitTorn ==
    /\ file \in {NoFile, EmptyFile}
    /\ entities = <<>>
    /\ relations = <<>>
    /\ last = [op |-> "none", status |-> "none", err |-> "none", done |-> 0,
               during |-> "idle", before |-> Graph(<<>>, <<>>),
               saving |-> Graph(<<>>, <<>>)]
    /\ faults = 0
    /\ proc = [pc |-> "idle", entities |-> <<>>, relations |-> <<>>, written |-> 0,
               before |-> Graph(<<>>, <<>>)]
    /\ calls = {Graph(<<>>, <<>>)}
    /\ _state_store = NoSessions

NextTorn ==
    \/ TornCall
    \/ TornOpen
    \/ TornWrite
    \/ TornClose
    \/ TornLoad

SpecTorn == InitTorn /\ [][NextTorn]_vars

(***************************************************************************)
(* One entity and its observations (SpecObs).  The entity "A" is created   *)
(* on a long-lived instance, then add_observations and delete_observations *)
(* are called on it and on "B", which is never created.  calls records, in *)
(* order, the observations "A" was created with and the arguments of every *)
(* add and delete on it that returned, each with the observations "A" had  *)
(* when the call was made.                                                 *)
(***************************************************************************)
MaxCalls == 4

ObsEntityInputs ==
    {[name |-> "A", entityType |-> "t1", hasObs |-> FALSE, observations |-> <<>>],
     [name |-> "A", entityType |-> "t1", hasObs |-> TRUE, observations |-> <<"x">>],
     [name |-> "A", entityType |-> "t1", hasObs |-> TRUE, observations |-> <<"x", "y">>],
     [name |-> "A", entityType |-> "t1", hasObs |-> TRUE, observations |-> <<"y", "x", "y">>]}

ObsArgs == {<<>>, <<"x">>, <<"y">>, <<"x", "y">>, <<"x", "x">>}

\* The record of a call made now.
Call(op, obs) ==
    [op |-> op, obs |-> obs,
     before |-> IF HasEntity(entities, "A") THEN ObservationsOf(entities, "A") ELSE <<>>]

ObsReturned(op, o, call) ==
    /\ entities' = o.entities
    /\ relations' = o.relations
    /\ file' = o.file
    /\ last' = [op |-> op, status |-> IF o.err = "none" THEN "returned" ELSE "raised",
                 err |-> o.err, done |-> o.done]
    /\ calls' = IF o.err = "none" THEN Append(calls, call) ELSE calls
    /\ UNCHANGED <<faults, proc, _state_store>>

ObsCreateEntities ==
    \E e \in ObsEntityInputs :
        ObsReturned("create_entities",
                    KG_create_entities(entities, relations, file, <<e>>, IoOk),
                    Call("create", NewEntity(e).observations))

ObsAddObservations ==
    \E name \in Names, obs \in ObsArgs :
        /\ Len(calls) < MaxCalls
        /\ ObsReturned("add_observations",
                       KG_add_observations(entities, relations, file, name, obs, IoOk),
                       Call("add", obs))

ObsDeleteObservations ==
    \E name \in Names, obs \in ObsArgs :
        /\ Len(calls) < MaxCalls
        /\ ObsReturned("delete_observations",
                       KG_delete_observations(entities, relations, file, name, obs, IoOk),
                       Call("delete", obs))

InitObs ==
    /\ file \in {NoFile, EmptyFile}
    /\ entities = _load(file).entities
    /\ relations = _load(file).relations
    /\ last = [op |-> "init", status |-> "returned", err |-> "none", done |-> 0]
    /\ faults = 0
    /\ proc = NoProcs
    /\ calls = NoCalls
    /\ _state_store = NoSessions

NextObs ==
    \/ ObsCreateEntities
    \/ ObsAddObservations
    \/ ObsDeleteObservations
    \/ ReadGraph
    \/ Reopen

SpecObs == InitObs /\ [][NextObs]_vars

(***************************************************************************)
(* _save and KnowledgeGraph() on any graph an instance can hold            *)
(* (SpecRound): the dict gives every entity its own name, and nothing else *)
(* is assumed, so a relation may have no entity at an end and a triple may *)
(* be there twice.                                                         *)
(***************************************************************************)
RoundObservations == {<<>>, <<"x">>, <<"x", "y">>, <<"y", "x">>, <<"x", "x">>}

RoundEntities ==
    {[name |-> n, entityType |-> t, observations |-> o] :
        n \in Names, t \in {"t1", "t2"}, o \in RoundObservations}

RoundRelations ==
    RelationInputs \cup {[from |-> "B", to |-> "A", relationType |-> "r"]}

\* The dicts over Names: no key twice.
RoundDicts ==
    {ents \in BSeq(RoundEntities, Cardinality(Names)) :
        \A i, j \in 1..Len(ents) : ents[i].name = ents[j].name => i = j}

\* self._save() on the instance.
SaveGraph ==
    LET s == _save(entities, relations, file, IoOk)
    IN  /\ file' = s.file
        /\ last' = [op |-> "_save", status |-> "returned", err |-> s.err, done |-> 0]
        /\ UNCHANGED <<entities, relations, faults, proc, calls, _state_store>>

InitRound ==
    /\ file \in {NoFile,
                 [exists |-> TRUE,
                  lines |-> <<EntityLine([name |-> "B", entityType |-> "t2",
                                          observations |-> <<"y">>])>>]}
    /\ entities \in RoundDicts
    /\ relations \in BSeq(RoundRelations, MaxBatch)
    /\ last = [op |-> "none", status |-> "none", err |-> "none", done |-> 0]
    /\ faults = 0
    /\ proc = NoProcs
    /\ calls = NoCalls
    /\ _state_store = NoSessions

NextRound ==
    \/ SaveGraph
    \/ Reopen

SpecRound == InitRound /\ [][NextRound]_vars

(***************************************************************************)
(* Relations in both directions (SpecRel): an instance that holds the      *)
(* entities "A" and "B", on which relations between them, either way       *)
(* round, are created and deleted.                                         *)
(***************************************************************************)
RelTriples ==
    {[from |-> "A", to |-> "B", relationType |-> "r"],
     [from |-> "B", to |-> "A", relationType |-> "r"],
     [from |-> "A", to |-> "B", relationType |-> "s"],
     [from |-> "A", to |-> "A", relationType |-> "r"]}

RelBatches == BSeq(RelTriples, MaxBatch)

RelEntities ==
    <<[name |-> "A", entityType |-> "t1", observations |-> <<"x">>],
      [name |-> "B", entityType |-> "t1", observations |-> <<>>]>>

RelCreateRelations ==
    \E batch \in RelBatches :
        Returned("create_relations",
                 KG_create_relations(entities, relations, file, batch, IoOk))

RelDeleteRelations ==
    \E batch \in RelBatches :
        Returned("delete_relations",
                 KG_delete_relations(entities, relations, file, batch, IoOk))

InitRel ==
    /\ entities = RelEntities
    /\ relations = <<>>
    /\ file = [exists |-> TRUE, lines |-> SaveLines(RelEntities, <<>>)]
    /\ last = [op |-> "create_entities", status |-> "returned", err |-> "none", done |-> 2]
    /\ faults = 0
    /\ proc = NoProcs
    /\ calls = NoCalls
    /\ _state_store = NoSessions

NextRel ==
    \/ RelCreateRelations
    \/ RelDeleteRelations

SpecRel == InitRel /\ [][NextRel]_vars

(***************************************************************************)
(* The tool functions on three entities (SpecOrder): enough names for the  *)
(* order of creation to differ from any other order.  As in SpecTool no    *)
(* instance outlives a call and the file system does not fail.             *)
(***************************************************************************)
OrderNames == {"A", "B", "C"}

OrderEntityInputs ==
    {[name |-> n, entityType |-> "t1", hasObs |-> FALSE, observations |-> <<>>] :
        n \in OrderNames}

OrderRelationInputs ==
    {[from |-> "A", to |-> "B", relationType |-> "r"],
     [from |-> "B", to |-> "C", relationType |-> "r"]}

OrderCreateEntities ==
    \E batch \in BSeq(OrderEntityInputs, MaxBatch) :
        ToolReturned(create_entities(file, batch, IoOk))

OrderCreateRelations ==
    \E batch \in BSeq(OrderRelationInputs, MaxBatch) :
        ToolReturned(create_relations(file, batch, IoOk))

OrderAddObservations ==
    /\ ObsFit(ExtendObservations(_load(file).entities, "A", <<"x">>))
    /\ ToolReturned(add_observations(file, "A", <<"x">>, IoOk))

OrderDeleteEntities ==
    \E names \in BSeq(OrderNames, MaxBatch) :
        ToolReturned(delete_entities(file, names, IoOk))

OrderDeleteObservations ==
    ToolReturned(delete_observations(file, "A", <<"x">>, IoOk))

OrderDeleteRelations ==
    \E batch \in BSeq(OrderRelationInputs, MaxBatch) :
        ToolReturned(delete_relations(file, batch, IoOk))

NextOrder ==
    \/ OrderCreateEntities
    \/ OrderCreateRelations
    \/ OrderAddObservations
    \/ OrderDeleteEntities
    \/ OrderDeleteObservations
    \/ OrderDeleteRelations
    \/ ToolReadGraph

SpecOrder == InitTool /\ [][NextOrder]_vars

(***************************************************************************)
(* The query methods on an instance (SpecQuery).  The instance holds a     *)
(* graph that create_entities and create_relations have built and saved;   *)
(* names, types and observations are short strings of upper and lower case *)
(* letters.  last keeps the arguments and the result of the query.         *)
(***************************************************************************)
MaxQuery == 2
MaxThoughts == 3

Letters == {"a", "A", "b", "B"}

QueryNames == {<<"A">>, <<"b", "A">>}
QueryTypes == {<<"a", "B">>, <<"B">>}
QueryObservations == {<<>>, <<<<"B", "b">>>>, <<<<"b", "B">>, <<"A", "B", "b">>>>}

\* A name that no entity has: dict keys are compared case and all.
Missing == <<"a">>

QueryEntities ==
    {[name |-> n, entityType |-> t, observations |-> o] :
        n \in QueryNames, t \in QueryTypes, o \in QueryObservations}

QueryDicts ==
    {ents \in BSeq(QueryEntities, Cardinality(QueryNames)) :
        \A i, j \in 1..Len(ents) : ents[i].name = ents[j].name => i = j}

QueryRelationLists ==
    LET ab == [from |-> <<"A">>, to |-> <<"b", "A">>, relationType |-> "r"]
        ba == [from |-> <<"b", "A">>, to |-> <<"A">>, relationType |-> "r"]
        aa == [from |-> <<"A">>, to |-> <<"A">>, relationType |-> "r"]
    IN  {<<>>, <<aa>>, <<ab>>, <<ab, ba>>, <<ba, aa, ab>>}

Queries == BSeq(Letters, MaxQuery)

SearchNodes ==
    \E query \in Queries :
        /\ last' = [op |-> "search_nodes", status |-> "returned", err |-> "none",
                    done |-> 0, query |-> query,
                    results |-> KG_search_nodes(entities, query)]
        /\ UNCHANGED <<entities, relations, file, faults, proc, calls, _state_store>>

\* An open_nodes that attaches relations_from and relations_to to the stored
\* entity itself instead of to a copy of it.
OpenNodes_InPlace ==
    \E names \in BSeq(QueryNames \cup {Missing}, MaxBatch) :
        /\ last' = [op |-> "open_nodes", status |-> "returned", err |-> "none",
                    done |-> 0, names |-> names,
                    results |-> KG_open_nodes(entities, relations, names)]
        /\ entities' = [i \in 1..Len(entities) |->
                          IF \E j \in 1..Len(names) : names[j] = entities[i].name
                          THEN KG_open_nodes(entities, relations, <<entities[i].name>>)[1]
                          ELSE entities[i]]
        /\ UNCHANGED <<relations, file, faults, proc, calls, _state_store>>

OpenNodes ==
    \E names \in BSeq(QueryNames \cup {Missing}, MaxBatch) :
        /\ last' = [op |-> "open_nodes", status |-> "returned", err |-> "none",
                    done |-> 0, names |-> names,
                    results |-> KG_open_nodes(entities, relations, names)]
        /\ UNCHANGED <<entities, relations, file, faults, proc, calls, _state_store>>

InitQuery ==
    /\ entities \in QueryDicts
    /\ relations \in QueryRelationLists
    /\ NoDangling(entities, relations)
    /\ file = [exists |-> TRUE, lines |-> SaveLines(entities, relations)]
    /\ last = [op |-> "create_relations", status |-> "returned", err |-> "none",
               done |-> Len(relations)]
    /\ faults = 0
    /\ proc = NoProcs
    /\ calls = NoCalls
    /\ _state_store = NoSessions

NextQuery ==
    \/ SearchNodes
    \/ OpenNodes

SpecQuery == InitQuery /\ [][NextQuery]_vars

(***************************************************************************)
(* Query calls only (SpecFrame): instances over the graphs of SpecQuery,   *)
(* the empty graph also without a file, and no call but the constructor    *)
(* and the three query methods.                                            *)
(***************************************************************************)
InitFrame ==
    /\ entities \in QueryDicts
    /\ relations \in QueryRelationLists
    /\ NoDangling(entities, relations)
    /\ file \in {[exists |-> TRUE, lines |-> SaveLines(entities, relations)]}
                \cup (IF entities = <<>> /\ relations = <<>> THEN {NoFile} ELSE {})
    /\ last = [op |-> "create_relations", status |-> "returned", err |-> "none",
               done |-> Len(relations)]
    /\ faults = 0
    /\ proc = NoProcs
    /\ calls = NoCalls
    /\ _state_store = NoSessions

NextFrame ==
    \/ Reopen
    \/ ReadGraph
    \/ SearchNodes
    \/ OpenNodes

SpecFrame == InitFrame /\ [][NextFrame]_vars

(***************************************************************************)
(* The nine tool functions (SpecEnv), on a file system that may fail in    *)
(* _save up to MaxFaults times.  Names, types and observations are strings *)
(* of letters, as search_nodes needs them.                                 *)
(***************************************************************************)
EnvEntityInputs ==
    {[name |-> <<"A">>, entityType |-> <<"B">>, hasObs |-> TRUE,
      observations |-> <<<<"b", "B">>>>],
     [name |-> <<"b", "A">>, entityType |-> <<"a", "B">>, hasObs |-> FALSE,
      observations |-> <<>>]}

EnvRelationInputs == {[from |-> <<"A">>, to |-> <<"b", "A">>, relationType |-> "r"]}

EnvEntityBatches == BSeq(EnvEntityInputs, MaxBatch)
EnvRelationBatches == BSeq(EnvRelationInputs, MaxBatch)
EnvNameBatches == BSeq(QueryNames, 1)
EnvObsBatches == {<<<<"B", "b">>>>}
EnvQueries == {<<>>, <<"b">>, <<"a", "a">>}
EnvRequests == {<<>>, <<Missing>>, <<<<"b", "A">>, <<"A">>>>}

EnvCreateEntities ==
    \E batch \in EnvEntityBatches :
      \E io \in IoFor(KG_create_entities(_load(file).entities, _load(file).relations,
                                         file, batch, IoOk)) :
        ToolReturned(create_entities(file, batch, io))

EnvCreateRelations ==
    \E batch \in EnvRelationBatches :
      \E io \in IoFor(KG_create_relations(_load(file).entities, _load(file).relations,
                                          file, batch, IoOk)) :
        ToolReturned(create_relations(file, batch, io))

EnvAddObservations ==
    \E name \in QueryNames, obs \in EnvObsBatches :
      \E io \in IoFor(KG_add_observations(_load(file).entities, _load(file).relations,
                                          file, name, obs, IoOk)) :
        /\ ObsFit(ExtendObservations(_load(file).entities, name, obs))
        /\ ToolReturned(add_observations(file, name, obs, io))

EnvDeleteEntities ==
    \E names \in EnvNameBatches :
      \E io \in IoFor(KG_delete_entities(_load(file).entities, _load(file).relations,
                                         file, names, IoOk)) :
        ToolReturned(delete_entities(file, names, io))

EnvDeleteObservations ==
    \E name \in QueryNames, obs \in EnvObsBatches :
      \E io \in IoFor(KG_delete_observations(_load(file).entities, _load(file).relations,
                                             file, name, obs, IoOk)) :
        ToolReturned(delete_observations(file, name, obs, io))

EnvDeleteRelations ==
    \E batch \in EnvRelationBatches :
      \E io \in IoFor(KG_delete_relations(_load(file).entities, _load(file).relations,
                                          file, batch, IoOk)) :
        ToolReturned(delete_relations(file, batch, io))

EnvSearchNodes == \E query \in EnvQueries : ToolReturned(search_nodes(file, query))

EnvOpenNodes == \E names \in EnvRequests : ToolReturned(open_nodes(file, names))

NextEnv ==
    \/ EnvCreateEntities
    \/ EnvCreateRelations
    \/ EnvAddObservations
    \/ EnvDeleteEntities
    \/ EnvDeleteObservations
    \/ EnvDeleteRelations
    \/ ToolReadGraph
    \/ EnvSearchNodes
    \/ EnvOpenNodes

SpecEnv == InitFault /\ [][NextEnv]_vars

(***************************************************************************)
(* Tool functions on a file that may not be readable (SpecRead).  The file *)
(* system answers the open() and the reads of _load with "ok", with "open" *)
(* (open() raises) or with "read" (an error after `read` lines were read). *)
(* The except clause of _load catches either, prints a warning and leaves  *)
(* the instance with what it had read so far.  last.read keeps the answer. *)
(***************************************************************************)
ReadOk == [kind |-> "ok", read |-> 0]
ReadOpenFails == [kind |-> "open", read |-> 0]
ReadFailsAfter(k) == [kind |-> "read", read |-> k]

\* The answers the file system may give to a load of f: an existing file
\* may fail to open or fail before any of its lines.
Rd(f) ==
    IF ~f.exists THEN {ReadOk}
    ELSE {ReadOk, ReadOpenFails} \cup {ReadFailsAfter(k) : k \in 0..(Len(f.lines) - 1)}

\* KnowledgeGraph._load when the file system answers with rd.
LoadWith(f, rd) ==
    IF ~f.exists THEN [entities |-> <<>>, relations |-> <<>>]
    ELSE IF rd.kind = "open" THEN [entities |-> <<>>, relations |-> <<>>]
    ELSE IF rd.kind = "read" THEN LoadFrom(SubSeq(f.lines, 1, rd.read), 1, <<>>, <<>>)
    ELSE LoadFrom(f.lines, 1, <<>>, <<>>)

\* The tool functions on what such a load leaves in the instance.
read_graph_rd(f, rd) ==
    LET graph == LoadWith(f, rd)
    IN  [tool |-> "read_graph", status |-> "success", message |-> "none", done |-> 0,
         file |-> f,
         graph |-> KG_read_graph(graph.entities, graph.relations)]

create_entities_rd(f, batch, rd, io) ==
    LET graph == LoadWith(f, rd)
    IN  Envelope("create_entities",
                 KG_create_entities(graph.entities, graph.relations, f, batch, io))

delete_entities_rd(f, names, rd, io) ==
    LET graph == LoadWith(f, rd)
    IN  Envelope("delete_entities",
                 KG_delete_entities(graph.entities, graph.relations, f, names, io))

ReadReturned(r, rd) ==
    /\ file' = r.file
    /\ last' = [op |-> r.tool, status |-> r.status, err |-> r.message, done |-> r.done,
                 read |-> rd.kind]
    /\ UNCHANGED <<entities, relations, faults, proc, calls, _state_store>>

ReadCreateEntities ==
    \E batch \in EntityBatches, rd \in Rd(file) :
        ReadReturned(create_entities_rd(file, batch, rd, IoOk), rd)

ReadDeleteEntities ==
    \E names \in NameBatches, rd \in Rd(file) :
        ReadReturned(delete_entities_rd(file, names, rd, IoOk), rd)

ReadReadGraph ==
    \E rd \in Rd(file) : ReadReturned(read_graph_rd(file, rd), rd)

InitRead ==
    /\ file \in {NoFile, EmptyFile}
    /\ entities = <<>>
    /\ relations = <<>>
    /\ last = [op |-> "none", status |-> "none", err |-> "none", done |-> 0,
               read |-> "ok"]
    /\ faults = 0
    /\ proc = NoProcs
    /\ calls = NoCalls
    /\ _state_store = NoSessions

NextRead ==
    \/ ReadCreateEntities
    \/ ReadDeleteEntities
    \/ ReadReadGraph

SpecRead == InitRead /\ [][NextRead]_vars

(***************************************************************************)
(* sequential_thinking.py (SpecThink).  _state_store is the dict of the    *)
(* sessions; last is the call made last, what it returned and how many    *)
(* thoughts its session held before; calls counts for every session key    *)
(* the successful sequential_thinking calls since the key was last cleared.*)
(*  The thought's text and its timestamp play no *)
(* part in what the functions do and are left out of the stored thoughts.  *)
(***************************************************************************)
SessionKey(session_id) == IF session_id = None THEN "default" ELSE session_id[1]

\* get_state: the dict afterwards, which holds the key, and the key.
get_state(store, session_id) ==
    LET key == SessionKey(session_id)
    IN  [store |-> IF store[key].exists THEN store
                   ELSE [store EXCEPT ![key] =
                            [exists |-> TRUE, state |-> SequentialThinkingState(key)]],
         key |-> key]

\* A clear_history that empties the main history and keeps the branches.
clear_history_MainOnly(store, session_id) ==
    LET key == SessionKey(session_id)
    IN  [store |-> IF store[key].exists
                   THEN [store EXCEPT ![key].state.thoughtHistory = <<>>]
                   ELSE store,
         response |-> [status |-> "success", session_id |-> key]]

\* clear_history: del _state_store[session_id] when the key is there.
clear_history(store, session_id) ==
    LET key == SessionKey(session_id)
    IN  [store |-> IF store[key].exists
                   THEN [store EXCEPT ![key] =
                            [exists |-> FALSE, state |-> SequentialThinkingState(key)]]
                   ELSE store,
         response |-> [status |-> "success", session_id |-> key]]

\* bool(branchId): None and the empty string are false.
Truthy(branchId) == branchId # None /\ branchId[1] # ""

\* The thoughts a session holds, in its main history and in its branches.
ThoughtsIn(state) ==
    LET RECURSIVE Sum(_)
        Sum(bs) == IF bs = {} THEN 0
                   ELSE LET b == CHOOSE x \in bs : TRUE
                        IN  Len(state.branches[b]) + Sum(bs \ {b})
    IN  Len(state.thoughtHistory) + Sum(BranchKeys)

\* thoughts_so_far = len(state.thoughtHistory)
thoughts_so_far(state) == Len(state.thoughtHistory)

\* A validation that lets thoughtNumber 0 through.
Invalid_ZeroAllowed(a) ==
    IF a.thoughtNumber < 0 THEN "thoughtNumber must be >= 1"
    ELSE IF a.totalThoughts < 1 THEN "totalThoughts must be >= 1"
    ELSE IF a.thoughtNumber > a.totalThoughts /\ ~a.needsMoreThoughts
         THEN "thoughtNumber exceeds totalThoughts"
    ELSE "none"

\* The three input checks, in their order; "none" when all pass.
Invalid(a) ==
    IF a.thoughtNumber < 1 THEN "thoughtNumber must be >= 1"
    ELSE IF a.totalThoughts < 1 THEN "totalThoughts must be >= 1"
    ELSE IF a.thoughtNumber > a.totalThoughts /\ ~a.needsMoreThoughts
         THEN "thoughtNumber exceeds totalThoughts"
    ELSE "none"

\* A call that never expands totalThoughts.
Expanded_Never(a) == a.totalThoughts

\* Dynamic thought expansion: the totalThoughts stored and returned.
Expanded(a) ==
    IF a.needsMoreThoughts /\ a.thoughtNumber > a.totalThoughts
    THEN a.thoughtNumber ELSE a.totalThoughts

\* thought_data
ThoughtData(a) ==
    [thoughtNumber |-> a.thoughtNumber,
     totalThoughts |-> Expanded(a),
     nextThoughtNeeded |-> a.nextThoughtNeeded,
     isRevision |-> IF a.isRevision THEN Some(TRUE) ELSE None,
     revisesThought |-> a.revisesThought,
     branchFromThought |-> a.branchFromThought,
     branchId |-> a.branchId,
     needsMoreThoughts |-> IF a.needsMoreThoughts THEN Some(TRUE) ELSE None]

\* Handle branching: the dict after the thought went to its branch or to the
\* main history of the session; store already holds the session's key.
Recorded(store, a) ==
    LET key == SessionKey(a.session_id)
        state == store[key].state
    IN  [store EXCEPT ![key].state =
            IF a.branchFromThought # None /\ Truthy(a.branchId)
            THEN [state EXCEPT !.branches[a.branchId[1]] = Append(@, ThoughtData(a)),
                               !.currentBranch = a.branchId[1]]
            ELSE [state EXCEPT !.thoughtHistory = Append(@, ThoughtData(a)),
                               !.currentBranch = "main"]]

\* sequential_thinking: the dict afterwards and the response.
sequential_thinking(store, a) ==
    LET g == get_state(store, a.session_id)
        after == Recorded(g.store, a)
        state == after[g.key].state
        err == Invalid(a)
    IN  IF err = "thoughtNumber must be >= 1"
        THEN [store |-> g.store,
              response |-> [status |-> "error", message |-> err,
                            thoughtNumber |-> a.thoughtNumber]]
        ELSE IF err = "totalThoughts must be >= 1"
        THEN [store |-> g.store,
              response |-> [status |-> "error", message |-> err,
                            totalThoughts |-> a.totalThoughts]]
        ELSE IF err # "none"
        THEN [store |-> g.store,
              response |-> [status |-> "error", message |-> err,
                            thoughtNumber |-> a.thoughtNumber,
                            totalThoughts |-> a.totalThoughts]]
        ELSE [store |-> after,
              response |->
                 [status |-> "success", message |-> "none",
                  thoughtNumber |-> a.thoughtNumber,
                  totalThoughts |-> Expanded(a),
                  thoughtsSoFar |-> thoughts_so_far(state),
                  nextThoughtNeeded |-> a.nextThoughtNeeded,
                  session_id |-> state.sessionId,
                  currentBranch |-> IF Truthy(a.branchId) THEN a.branchId[1] ELSE "main",
                  branchLength |-> IF Truthy(a.branchId)
                                   THEN Len(state.branches[a.branchId[1]]) ELSE 0,
                  complete |-> ~a.nextThoughtNeeded]]

\* The branch ids that state.branches holds.
BranchesOf(state) == {b \in BranchKeys : state.branches[b] # <<>>}

\* get_thought_history: the dict afterwards (get_state may have added the
\* key) and the result; hasBranches tells whether the result has the keys
\* branches and branchCount.
get_thought_history(store, session_id, include_branches) ==
    LET g == get_state(store, session_id)
        state == g.store[g.key].state
        with == include_branches /\ BranchesOf(state) # {}
    IN  [store |-> g.store,
         response |-> [status |-> "success", session_id |-> state.sessionId,
                       thoughtCount |-> Len(state.thoughtHistory),
                       thoughts |-> state.thoughtHistory,
                       hasBranches |-> with,
                       branches |-> IF with THEN state.branches ELSE NoBranches,
                       branchCount |-> IF with THEN Cardinality(BranchesOf(state)) ELSE 0]]

\* The arguments of a sequential_thinking call.
Args(thoughtNumber, totalThoughts, nextThoughtNeeded, isRevision, revisesThought, branchFromThought, branchId, needsMoreThoughts, session_id) ==
    [thoughtNumber |-> thoughtNumber, totalThoughts |-> totalThoughts,
     nextThoughtNeeded |-> nextThoughtNeeded, isRevision |-> isRevision,
     revisesThought |-> revisesThought, branchFromThought |-> branchFromThought,
     branchId |-> branchId, needsMoreThoughts |-> needsMoreThoughts,
     session_id |-> session_id]

\* The session_id arguments: of clear_history and get_thought_history, and
\* of sequential_thinking, which reaches the default session by None.
SessionIds == {None, Some("default"), Some("s1")}
ThinkSessionIds == {None, Some("s1")}

\* Calls that pass the input checks: plain, expanding, revising and final,
\* branching into b1 and b2, and two that name a branch by halves (an empty
\* branchId, a branchId without branchFromThought) and go to the main history.
ValidInputs(sid) ==
    {Args(1, 1, TRUE, FALSE, None, None, None, FALSE, sid),
     Args(2, 1, TRUE, FALSE, None, None, None, TRUE, sid),
     Args(2, 2, FALSE, TRUE, Some(1), None, None, FALSE, sid),
     Args(1, 2, TRUE, FALSE, None, Some(1), Some("b1"), FALSE, sid),
     Args(2, 1, TRUE, FALSE, None, Some(1), Some("b2"), TRUE, sid),
     Args(1, 2, TRUE, FALSE, None, Some(1), Some(""), FALSE, sid),
     Args(1, 1, TRUE, FALSE, None, None, Some("b1"), FALSE, sid)}

\* Calls that fail one or more of the input checks.
InvalidInputs(sid) ==
    {Args(0, 1, TRUE, FALSE, None, None, None, FALSE, sid),
     Args(1, 0, TRUE, FALSE, None, None, None, FALSE, sid),
     Args(2, 1, TRUE, FALSE, None, None, None, FALSE, sid),
     Args(0, 0, TRUE, FALSE, None, None, None, TRUE, sid),
     Args(-1, 2, FALSE, FALSE, None, Some(1), Some("b1"), FALSE, sid),
     Args(2, 1, TRUE, TRUE, Some(1), Some(1), Some("b1"), FALSE, sid)}

ThinkInputs(sid) == ValidInputs(sid) \cup InvalidInputs(sid)

\* The thoughts that all the sessions hold.
ThoughtsHeld(store) ==
    LET RECURSIVE Sum(_)
        Sum(ks) == IF ks = {} THEN 0
                   ELSE LET k == CHOOSE x \in ks : TRUE
                        IN  ThoughtsIn(store[k].state) + Sum(ks \ {k})
    IN  Sum(SessionKeys)

ThinkReturned(op, a, r) ==
    /\ _state_store' = r.store
    /\ last' = [op |-> op, session |-> SessionKey(a.session_id), args |-> a,
                 response |-> r.response,
                 held |-> ThoughtsIn(_state_store[SessionKey(a.session_id)].state)]
    /\ UNCHANGED <<entities, relations, file, faults, proc>>

SequentialThinking ==
    \E sid \in ThinkSessionIds :
      \E a \in ThinkInputs(sid) :
        LET r == sequential_thinking(_state_store, a)
        IN  /\ r.response.status = "success" => ThoughtsHeld(_state_store) < MaxThoughts
            /\ ThinkReturned("sequential_thinking", a, r)
            /\ calls' = IF r.response.status = "success"
                        THEN [calls EXCEPT ![SessionKey(sid)] = @ + 1]
                        ELSE calls

ClearHistory ==
    \E sid \in SessionIds :
        /\ ThinkReturned("clear_history", [session_id |-> sid],
                         clear_history(_state_store, sid))
        /\ calls' = [calls EXCEPT ![SessionKey(sid)] = 0]

GetThoughtHistory ==
    \E sid \in SessionIds, include_branches \in BOOLEAN :
        /\ ThinkReturned("get_thought_history",
                         [session_id |-> sid, include_branches |-> include_branches],
                         get_thought_history(_state_store, sid, include_branches))
        /\ UNCHANGED calls

InitThink ==
    /\ _state_store = NoSessions
    /\ calls = [k \in SessionKeys |-> 0]
    /\ last = [op |-> "none", session |-> "default", args |-> [session_id |-> None],
               response |-> [status |-> "none"], held |-> 0]
    /\ entities = <<>>
    /\ relations = <<>>
    /\ file = NoFile
    /\ faults = 0
    /\ proc = NoProcs

NextThink ==
    \/ SequentialThinking
    \/ ClearHistory
    \/ GetThoughtHistory

SpecThink == InitThink /\ [][NextThink]_vars

(***************************************************************************)
(* Properties.                                                             *)
(***************************************************************************)
NoDuplicateTriples(rels) ==
    \A i, j \in 1..Len(rels) : SameTriple(rels[i], rels[j]) => i = j

Mutators ==
    {"create_entities", "create_relations", "add_observations",
     "delete_entities", "delete_observations", "delete_relations"}

ValidationErrors == {"DuplicateEntity", "DuplicateRelation", "EntityNotFound"}

\* C1: from a missing or empty file, after any sequence of mutating calls,
\* failed or not, every relation of the instance and every relation a load
\* of the file yields has its from and its to among the entities held with it.
C1_NoDanglingEdges ==
    /\ NoDangling(entities, relations)
    /\ NoDangling(_load(file).entities, _load(file).relations)

\* A delete_entities has run and left a relation beside a single entity.
C1_Witness ==
    /\ last.op = "delete_entities"
    /\ Len(entities) = 1
    /\ relations # <<>>
    /\ _load(file).relations = relations

\* C2: from a missing or empty file, after any sequence of calls, the
\* relation list of the instance and the one a load of the file yields hold
\* no (from, to, relationType) triple twice.
C2_NoDuplicateTriples ==
    /\ NoDuplicateTriples(relations)
    /\ NoDuplicateTriples(_load(file).relations)

\* A create_relations batch appended one relation and was then stopped by a
\* triple that was already there.
C2_Witness ==
    /\ last.op = "create_relations"
    /\ last.err = "DuplicateRelation"
    /\ last.done >= 1
    /\ Len(relations) >= 2

MemEqualsFile ==
    /\ entities = _load(file).entities
    /\ relations = _load(file).relations

\* C3 as stated: whenever a call on the instance, mutating or query, has
\* returned without raising, the instance's entities and relations equal
\* what a fresh load of the file yields.
C3_Original == last.status = "returned" => MemEqualsFile

\* C3 as amended: whenever a mutating call on the instance has returned
\* without raising, the instance's entities (name, entityType, observations)
\* and relations (from, to, relationType) equal, in order, what a fresh load
\* of the file yields.
C3_WriteThrough == (last.op \in Mutators /\ last.status = "returned") => MemEqualsFile

\* A mutating call has returned on a graph of two entities and a relation.
C3_Witness ==
    /\ last.op \in Mutators
    /\ last.status = "returned"
    /\ Len(entities) = 2
    /\ relations # <<>>

\* The index of the first item of a create_entities batch whose name is held
\* already or was given by an earlier item; 0 when there is none.
FirstDuplicateEntity(ents, batch) ==
    LET bad == {i \in 1..Len(batch) :
                  \/ HasEntity(ents, batch[i].name)
                  \/ \E j \in 1..(i - 1) : batch[j].name = batch[i].name}
    IN  IF bad = {} THEN 0 ELSE CHOOSE i \in bad : \A j \in bad : i <= j

EndpointMissing(ents, r) == ~HasEntity(ents, r.from) \/ ~HasEntity(ents, r.to)

\* The index of the first item of a create_relations batch with an endpoint
\* that is no entity, or with a triple that is stored or was given by an
\* earlier item; 0 when there is none.
FirstBadRelation(ents, rels, batch) ==
    LET bad == {i \in 1..Len(batch) :
                  \/ EndpointMissing(ents, batch[i])
                  \/ \E j \in 1..Len(rels) : SameTriple(rels[j], batch[i])
                  \/ \E j \in 1..(i - 1) : SameTriple(batch[j], batch[i])}
    IN  IF bad = {} THEN 0 ELSE CHOOSE i \in bad : \A j \in bad : i <= j

\* C8: in every state the instance reaches, a create_entities or
\* create_relations call whose batch has a failing item raises, leaves the
\* items before the first failing one inserted in order at the end of the
\* in-memory graph, inserts neither that item nor any later one, and does
\* not touch the file.
C8_BatchStopsAtFirstFailure ==
    /\ \A batch \in EntityBatches :
          LET k == FirstDuplicateEntity(entities, batch)
              o == KG_create_entities(entities, relations, file, batch, IoOk)
          IN  k > 0 =>
                  /\ o.err # "none"
                  /\ o.entities = entities \o [i \in 1..(k - 1) |-> NewEntity(batch[i])]
                  /\ o.relations = relations
                  /\ o.file = file
    /\ \A batch \in RelationBatches :
          LET k == FirstBadRelation(entities, relations, batch)
              o == KG_create_relations(entities, relations, file, batch, IoOk)
          IN  k > 0 =>
                  /\ o.err # "none"
                  /\ o.relations = relations \o SubSeq(batch, 1, k - 1)
                  /\ o.entities = entities
                  /\ o.file = file

\* A create_entities batch has failed after an insertion: the instance holds
\* an entity the file does not.
C8_Witness ==
    /\ last.op = "create_entities"
    /\ last.err = "DuplicateEntity"
    /\ last.done >= 1
    /\ \E i \in 1..Len(entities) : ~HasEntity(_load(file).entities, entities[i].name)

\* C9: in every state the instance reaches, a create_entities call with a
\* batch that names an entity already present raises the duplicate-entity
\* error, every entity present before the call keeps its place, entityType
\* and observations in memory, and the file is as before.
C9_DuplicateLeavesEntity ==
    \A batch \in EntityBatches :
        LET o == KG_create_entities(entities, relations, file, batch, IoOk)
        IN  (\E i \in 1..Len(batch) : HasEntity(entities, batch[i].name)) =>
                /\ o.err = "DuplicateEntity"
                /\ Len(o.entities) >= Len(entities)
                /\ \A j \in 1..Len(entities) : o.entities[j] = entities[j]
                /\ o.file = file

\* A create_entities call has hit a present name at once, and the instance
\* and the file hold an entity with observations.
C9_Witness ==
    /\ last.op = "create_entities"
    /\ last.err = "DuplicateEntity"
    /\ last.done = 0
    /\ \E i \in 1..Len(entities) : entities[i].observations # <<>>
    /\ MemEqualsFile

C4_FailedValidationLeavesFile ==
    [][last'.err \in ValidationErrors =>
          /\ last'.status = "error"
          /\ file' = file
          /\ read_graph(file').graph = read_graph(file).graph
      ]_vars

\* A create_entities tool call has failed on a later item of its batch, on
\* a file that holds records.
C4_Witness ==
    /\ last.op = "create_entities"
    /\ last.status = "error"
    /\ last.err = "DuplicateEntity"
    /\ last.done >= 1
    /\ file.lines # <<>>

\* C5: when the save of a mutating tool call fails, a later load of the file
\* yields the graph that a load yielded before the call.
C5_FailedSaveKeepsPreviousGraph ==
    [][last'.err = "PersistenceFailure" => _load(file') = _load(file)]_vars

\* C6: after a load, every well-formed entity record of the file, before or
\* after a line that does not parse, has its entity in the graph, and every
\* well-formed relation record its relation.
C6_LoadSkipsOnlyBadLines ==
    last.op = "init" =>
        \A i \in 1..Len(file.lines) :
            LET line == file.lines[i]
            IN  /\ (line.valid /\ line.obj.type = "entity") =>
                       HasEntity(entities, line.obj.name)
                /\ (line.valid /\ line.obj.type = "relation") =>
                       \E j \in 1..Len(relations) : SameTriple(relations[j], line.obj)

\* C7: when a process's call saves, a load of the file yields exactly that
\* process's graph: what it loaded, stale or not, changed by its own call.
\* Every entity of the file was in the graph the process held before the
\* call unless the call is create_entities, and every relation unless it is
\* create_relations; what another process saved since the load is gone.
C7_SaveWritesOwnViewOnly ==
    [][\A p \in Procs :
          (proc[p].pc = "loaded" /\ proc'[p].pc = "idle" /\ proc'[p].err = "none") =>
              LET disk == _load(file')
              IN  /\ disk.entities = proc'[p].entities
                  /\ disk.relations = proc'[p].relations
                  /\ \A i \in 1..Len(disk.entities) :
                        \/ HasEntity(proc[p].entities, disk.entities[i].name)
                        \/ proc'[p].op = "create_entities"
                  /\ \A i \in 1..Len(disk.relations) :
                        \/ \E j \in 1..Len(proc[p].relations) :
                              proc[p].relations[j] = disk.relations[i]
                        \/ proc'[p].op = "create_relations"
      ]_vars

\* The lost update: Q created an entity and saved after P's load; P then
\* saved its add_observations, and the file is P's graph without Q's entity.
C7_Witness ==
    /\ proc["P"].pc = "idle" /\ proc["Q"].pc = "idle"
    /\ proc["P"].op = "add_observations" /\ proc["P"].err = "none"
    /\ proc["P"].stale
    /\ proc["Q"].op = "create_entities" /\ proc["Q"].err = "none"
    /\ _load(file).entities = proc["P"].entities
    /\ \E i \in 1..Len(proc["Q"].entities) :
          ~HasEntity(_load(file).entities, proc["Q"].entities[i].name)

\* Whether the string v given by call i of cs is still there after the calls
\* that follow: no later delete names it.
Survives(cs, i, v) ==
    \A j \in (i + 1)..Len(cs) :
        cs[j].op = "delete" => \A k \in 1..Len(cs[j].obs) : cs[j].obs[k] # v

\* The strings of the creation and of the adds of cs from call i on, in call
\* order, without those a later delete names.
RECURSIVE ExpectedObservations(_, _)
ExpectedObservations(cs, i) ==
    IF i > Len(cs) THEN <<>>
    ELSE LET Stays(v) == Survives(cs, i, v)
         IN  (IF cs[i].op = "delete" THEN <<>> ELSE SelectSeq(cs[i].obs, Stays))
             \o ExpectedObservations(cs, i + 1)

\* C11: after any sequence of add_observations and delete_observations calls
\* that returned since the entity was created, the observations read_graph
\* gives for it, from the instance and from a load of the file, are the
\* initial ones followed by the added strings in call order, duplicates
\* kept, without every string that a later delete_observations named.
C11_ObservationsFollowCalls ==
    calls # <<>> =>
        /\ HasEntity(entities, "A")
        /\ ObservationsOf(KG_read_graph(entities, relations).entities, "A")
               = ExpectedObservations(calls, 1)
        /\ ObservationsOf(read_graph(file).graph.entities, "A")
               = ExpectedObservations(calls, 1)

\* An add gave a string twice, a delete then took both occurrences and left
\* another string, and a later add put the deleted string back at the end.
C11_Witness ==
    /\ Len(calls) = 4
    /\ calls[1].obs = <<"y", "x", "y">>
    /\ calls[2].op = "add" /\ calls[2].obs = <<"x", "x">>
    /\ calls[3].op = "delete" /\ calls[3].obs = <<"x">>
    /\ calls[4].op = "add" /\ calls[4].obs = <<"x", "y">>
    /\ ObservationsOf(entities, "A") = <<"y", "y", "x", "y">>

\* C12: for any in-memory graph whose entities have names of their own, a
\* fresh load of the file _save wrote yields the same set of entities (name,
\* entityType, observations in order) and the same set of relations (from,
\* to, relationType).
C12_SaveLoadRoundTrip ==
    last.op = "_save" =>
        /\ Range(_load(file).entities) = Range(entities)
        /\ Range(_load(file).relations) = Range(relations)

\* A graph of two entities, one of them with two observations, and a
\* relation has been saved over a file that held another record.
C12_Witness ==
    /\ last.op = "_save"
    /\ Len(entities) = 2
    /\ \E i \in 1..Len(entities) : Len(entities[i].observations) = 2
    /\ \E i \in 1..Len(relations) : relations[i].from = "B"
    /\ \A i \in 1..Len(entities) : entities[i].observations # <<"y">>

\* C13: in every state the instance reaches, delete_entities(names) returns
\* and leaves, in memory and in the file, exactly the entities whose name is
\* not in names, each with its type and observations, and exactly the
\* relations with neither end at a deleted name, all in their former order.
C13_DeleteEntitiesFrame ==
    \A names \in NameBatches :
        LET o == KG_delete_entities(entities, relations, file, names, IoOk)
            Deleted(n) == n \in Range(names) /\ HasEntity(entities, n)
            KeptEntity(e) == e.name \notin Range(names)
            KeptRelation(r) == ~Deleted(r.from) /\ ~Deleted(r.to)
        IN  /\ o.err = "none"
            /\ o.entities = SelectSeq(entities, KeptEntity)
            /\ o.relations = SelectSeq(relations, KeptRelation)
            /\ _load(o.file).entities = o.entities
            /\ _load(o.file).relations = o.relations

\* A delete_entities has left one entity with its observation and the one
\* relation that touches no other entity.
C13_Witness ==
    /\ last.op = "delete_entities"
    /\ last.status = "returned"
    /\ last.done >= 1
    /\ Len(entities) = 1
    /\ entities[1].observations = <<"x">>
    /\ relations = <<[from |-> "A", to |-> "A", relationType |-> "r"]>>
    /\ MemEqualsFile

\* C14: on every file the tool functions reach, delete_entities with names
\* none of which is in the store returns success and read_graph gives the
\* same entities, observations and relations as before; and for any names,
\* a second delete_entities with the same names leaves the graph the first
\* one left.
C14_DeleteAbsentIsNoOp ==
    \A names \in NameBatches :
        LET once == delete_entities(file, names, IoOk)
            twice == delete_entities(once.file, names, IoOk)
        IN  /\ (\A i \in 1..Len(names) : ~HasEntity(_load(file).entities, names[i])) =>
                   /\ once.status = "success"
                   /\ read_graph(once.file).graph = read_graph(file).graph
            /\ twice.status = "success"
            /\ read_graph(twice.file).graph = read_graph(once.file).graph

\* A delete_entities tool call has gone through two names and the file still
\* holds an entity and a relation: the second name was the first again, not
\* in the store when its turn came.
C14_Witness ==
    /\ last.op = "delete_entities"
    /\ last.status = "success"
    /\ last.done = 2
    /\ Len(_load(file).entities) = 1
    /\ _load(file).relations # <<>>

\* The latest two recorded calls are an add_observations and then a
\* delete_observations with the same list of strings.
AddThenDelete ==
    /\ Len(calls) >= 3
    /\ calls[Len(calls) - 1].op = "add"
    /\ calls[Len(calls)].op = "delete"
    /\ calls[Len(calls)].obs = calls[Len(calls) - 1].obs

\* C15 as stated: after add_observations(E, O) and then
\* delete_observations(E, O), for any list O, E's observations are what they
\* were before the add.
C15_Original ==
    AddThenDelete => ObservationsOf(entities, "A") = calls[Len(calls) - 1].before

\* C15 as amended: the same, for a list O none of whose strings was among
\* E's observations before the add.
C15_AddThenDeleteRestores ==
    (/\ AddThenDelete
     /\ \A k \in 1..Len(calls[Len(calls)].obs) :
           calls[Len(calls)].obs[k] \notin Range(calls[Len(calls) - 1].before))
        => ObservationsOf(entities, "A") = calls[Len(calls) - 1].before

\* An entity with the observation "y" was given "x" twice, and a delete of
\* the same list has taken both away.
C15_Witness ==
    /\ AddThenDelete
    /\ calls[Len(calls)].obs = <<"x", "x">>
    /\ calls[Len(calls) - 1].before = <<"y">>
    /\ ObservationsOf(entities, "A") = <<"y">>

\* C16: in every state the instance reaches, add_observations and
\* delete_observations with a name that is no entity raise entity-not-found
\* and leave the entities, their observations, the relations and the file as
\* they were: no entity is created and nothing is saved.
C16_ObservationsOfAbsentEntity ==
    \A name \in Names, obs \in ObsBatches :
        ~HasEntity(entities, name) =>
            LET a == KG_add_observations(entities, relations, file, name, obs, IoOk)
                d == KG_delete_observations(entities, relations, file, name, obs, IoOk)
            IN  /\ a.err = "EntityNotFound" /\ d.err = "EntityNotFound"
                /\ a.entities = entities /\ d.entities = entities
                /\ a.relations = relations /\ d.relations = relations
                /\ a.file = file /\ d.file = file

\* An add_observations has raised entity-not-found on an instance that holds
\* one entity with an observation, in memory and in the file.
C16_Witness ==
    /\ last.op = "add_observations"
    /\ last.err = "EntityNotFound"
    /\ Len(entities) = 1
    /\ entities[1].observations # <<>>
    /\ MemEqualsFile

\* C17: in every state of the instance, delete_relations(rs) returns and
\* leaves exactly the relations that differ from every element of rs in
\* from, to or relationType (a relation the other way round among them), in
\* their former order; the entities are as before, and an element of rs that
\* matches nothing changes nothing.
C17_DeleteRelationsExact ==
    \A batch \in RelBatches :
        LET o == KG_delete_relations(entities, relations, file, batch, IoOk)
            Named(r) == \E j \in 1..Len(batch) :
                            /\ batch[j].from = r.from
                            /\ batch[j].to = r.to
                            /\ batch[j].relationType = r.relationType
            Kept(r) == ~Named(r)
        IN  /\ o.err = "none"
            /\ o.relations = SelectSeq(relations, Kept)
            /\ o.entities = entities
            /\ _load(o.file).relations = o.relations
            /\ _load(o.file).entities = entities

\* A delete_relations has gone through two triples and left the relation
\* from B to A and the one from A to B of another type, in that order.
C17_Witness ==
    /\ last.op = "delete_relations"
    /\ last.done = 2
    /\ relations = <<[from |-> "B", to |-> "A", relationType |-> "r"],
                     [from |-> "A", to |-> "B", relationType |-> "s"]>>
    /\ MemEqualsFile

\* The names of a list of entities, in order.
NamesOf(ents) == [i \in 1..Len(ents) |-> ents[i].name]

\* after is before without some of its elements and with new ones at the end.
OrderKept(before, after) ==
    LET Stays(x) == x \in Range(after)
        New(x) == x \notin Range(before)
    IN  after = SelectSeq(before, Stays) \o SelectSeq(after, New)

\* What a batch that succeeds adds to the lists of read_graph: its items, in
\* the order of the batch, at the end.
BatchGoesLast ==
    /\ \A batch \in BSeq(OrderEntityInputs, MaxBatch) :
          LET r == create_entities(file, batch, IoOk)
          IN  r.status = "success" =>
                  NamesOf(read_graph(r.file).graph.entities)
                      = NamesOf(read_graph(file).graph.entities) \o NamesOf(batch)
    /\ \A batch \in BSeq(OrderRelationInputs, MaxBatch) :
          LET r == create_relations(file, batch, IoOk)
          IN  r.status = "success" =>
                  read_graph(r.file).graph.relations
                      = read_graph(file).graph.relations \o batch

\* C18: across the calls of the tool functions, each on its own load of the
\* file, the entities read_graph lists are those it listed before the call
\* that are still there, in the same order, followed by the ones the call
\* created, in the order of its batch; and so are the relations.  Hence
\* both lists are in creation order, deletions do not reorder and neither
\* does the save and load of each call.
C18_ReadGraphKeepsCreationOrder ==
    /\ []BatchGoesLast
    /\ [][LET old == read_graph(file).graph
               new == read_graph(file').graph
           IN  /\ OrderKept(NamesOf(old.entities), NamesOf(new.entities))
               /\ OrderKept(old.relations, new.relations)
          ]_vars

\* C was created first and A last (or deleted and created again), the
\* relation from B to C before the one from A to B, and a call that deleted
\* nothing has just rewritten the file.
C18_Witness ==
    /\ last.op = "delete_observations"
    /\ last.status = "success"
    /\ NamesOf(read_graph(file).graph.entities) = <<"C", "B", "A">>
    /\ read_graph(file).graph.relations
           = <<[from |-> "B", to |-> "C", relationType |-> "r"],
               [from |-> "A", to |-> "B", relationType |-> "r"]>>

\* Upper and lower case of one letter.
SameLetter(c, d) == c = d \/ {c, d} \in {{"a", "A"}, {"b", "B"}}

\* q occurs in str when case is ignored.
OccursIgnoringCase(q, str) ==
    \E i \in 0..(Len(str) - Len(q)) : \A k \in 1..Len(q) : SameLetter(q[k], str[i + k])

\* C19: search_nodes(query) returns each entity at most once, and exactly the
\* entities in whose name, entity type or some observation the query occurs
\* when case is ignored; each result carries the entity's fields and the
\* match `name` if the name holds the query, else `type` if the entity type
\* does, else `observation`.
C19_SearchNodesMatches ==
    last.op = "search_nodes" =>
        LET q == last.query
            res == last.results
            InName(e) == OccursIgnoringCase(q, e.name)
            InType(e) == OccursIgnoringCase(q, e.entityType)
            InObservation(e) ==
                \E j \in 1..Len(e.observations) : OccursIgnoringCase(q, e.observations[j])
        IN  /\ \A i, j \in 1..Len(res) : res[i].name = res[j].name => i = j
            /\ {res[i].name : i \in 1..Len(res)}
                   = {entities[i].name : i \in {k \in 1..Len(entities) :
                          InName(entities[k]) \/ InType(entities[k])
                              \/ InObservation(entities[k])}}
            /\ \A i \in 1..Len(res) :
                  LET e == EntityOf(entities, res[i].name)
                  IN  /\ res[i].entityType = e.entityType
                      /\ res[i].observations = e.observations
                      /\ res[i].match = IF InName(e) THEN "name"
                                        ELSE IF InType(e) THEN "type"
                                        ELSE "observation"

\* A search for "Bb" has found two entities by their observations, one of
\* which holds the query twice, in lower case first; neither name nor type
\* holds it.
C19_Witness ==
    /\ last.op = "search_nodes"
    /\ last.query = <<"B", "b">>
    /\ Len(last.results) = 2
    /\ \A i \in 1..2 : last.results[i].match = "observation"
    /\ \E i \in 1..2 : Len(last.results[i].observations) = 2

\* C20: open_nodes(names) returns one result for each requested name that is
\* an entity, in the order of the request, and none for the others; a
\* result has the entity's fields, as relations_from exactly the relations
\* whose from is that name and as relations_to exactly those whose to is.
C20_OpenNodesResults ==
    last.op = "open_nodes" =>
        LET res == last.results
            Present(n) == HasEntity(entities, n)
            found == SelectSeq(last.names, Present)
        IN  /\ last.status = "returned"
            /\ Len(res) = Len(found)
            /\ \A i \in 1..Len(res) :
                  LET From(r) == r.from = found[i]
                      To(r) == r.to = found[i]
                  IN  /\ res[i].name = found[i]
                      /\ res[i].entityType = EntityOf(entities, found[i]).entityType
                      /\ res[i].observations = EntityOf(entities, found[i]).observations
                      /\ res[i].relations_from = SelectSeq(relations, From)
                      /\ res[i].relations_to = SelectSeq(relations, To)

\* open_nodes was asked for a name that is no entity and then for one that
\* is, and gave one result, with a relation each way.
C20_Witness ==
    /\ last.op = "open_nodes"
    /\ Len(last.names) = 2
    /\ last.names[1] = Missing
    /\ Len(last.results) = 1
    /\ Len(last.results[1].relations_from) = 2
    /\ Len(last.results[1].relations_to) = 2
    /\ last.results[1].relations_from # last.results[1].relations_to

\* A result dict as a caller may get it: a status of success or error, and
\* with error a message.
IsEnvelope(r) ==
    /\ r.status \in {"success", "error"}
    /\ r.status = "error" => r.message # "none"

\* The failures of the file system in a save of n records.
IoFailures(n) == Io(n) \ {IoOk}

\* C21: on every file the tool functions reach, each of the nine returns a
\* result whose status is success or error, whatever its arguments and
\* whatever the file system does in the save; an error result has a
\* message; and the status is error whenever a batch item or a name fails
\* validation and whenever the save fails.
C21_EveryCallReturnsEnvelope ==
    LET g == _load(file)
        Ios(o) == {IoOk} \cup IoFailures(Len(o.file.lines))
    IN  /\ last.op # "none" => IsEnvelope([status |-> last.status, message |-> last.err])
        /\ \A batch \in EnvEntityBatches :
             \A io \in Ios(KG_create_entities(g.entities, g.relations, file, batch, IoOk)) :
               LET r == create_entities(file, batch, io)
               IN  /\ IsEnvelope(r)
                   /\ (FirstDuplicateEntity(g.entities, batch) > 0 \/ io # IoOk)
                          => r.status = "error"
        /\ \A batch \in EnvRelationBatches :
             \A io \in Ios(KG_create_relations(g.entities, g.relations, file, batch, IoOk)) :
               LET r == create_relations(file, batch, io)
               IN  /\ IsEnvelope(r)
                   /\ (FirstBadRelation(g.entities, g.relations, batch) > 0 \/ io # IoOk)
                          => r.status = "error"
        /\ \A name \in QueryNames \cup {Missing}, obs \in EnvObsBatches :
             \A io \in Ios(KG_add_observations(g.entities, g.relations, file, name, obs, IoOk)) :
               LET a == add_observations(file, name, obs, io)
                   d == delete_observations(file, name, obs, io)
               IN  /\ IsEnvelope(a) /\ IsEnvelope(d)
                   /\ (~HasEntity(g.entities, name) \/ io # IoOk)
                          => a.status = "error" /\ d.status = "error"
        /\ \A names \in EnvNameBatches :
             \A io \in Ios(KG_delete_entities(g.entities, g.relations, file, names, IoOk)) :
               LET r == delete_entities(file, names, io)
               IN  IsEnvelope(r) /\ (io # IoOk => r.status = "error")
        /\ \A batch \in EnvRelationBatches :
             \A io \in Ios(KG_delete_relations(g.entities, g.relations, file, batch, IoOk)) :
               LET r == delete_relations(file, batch, io)
               IN  IsEnvelope(r) /\ (io # IoOk => r.status = "error")
        /\ IsEnvelope(read_graph(file))
        /\ \A query \in EnvQueries : IsEnvelope(search_nodes(file, query))
        /\ \A names \in EnvRequests : IsEnvelope(open_nodes(file, names))

\* A delete_entities tool call has met a file system that failed after the
\* file was opened for writing, and returned an error result.
C21_Witness ==
    /\ last.op = "delete_entities"
    /\ last.status = "error"
    /\ last.err = "PersistenceFailure"
    /\ faults < MaxFaults

\* C22: when the file exists and the load of a tool call could not open or
\* read it, the call returns an error result.
C22_LoadFailureReported ==
    last.read # "ok" => last.status = "error"

\* C23: a successful tool call that deletes nothing (create_entities,
\* create_relations, add_observations) keeps in the file every well-formed
\* entity record's entity and every well-formed relation record's relation,
\* also when a line that does not parse stands before the record.
C23_SuccessKeepsOtherRecords ==
    [][(/\ last'.status = "success"
        /\ last'.op \in {"create_entities", "create_relations", "add_observations"}) =>
          LET disk == _load(file')
          IN  \A i \in 1..Len(file.lines) :
                LET line == file.lines[i]
                IN  /\ (line.valid /\ line.obj.type = "entity") =>
                           HasEntity(disk.entities, line.obj.name)
                    /\ (line.valid /\ line.obj.type = "relation") =>
                           \E j \in 1..Len(disk.relations) :
                               SameTriple(disk.relations[j], line.obj)
      ]_vars

\* C24: read_graph, search_nodes and open_nodes leave the file, missing or
\* not, and the instance's entities and relations as they were, and so does
\* the constructor that precedes them in a tool call; after any number of
\* them the file and the graph are those of the start.
C24_QueriesChangeNothing ==
    [][(last'.op \in {"read_graph", "search_nodes", "open_nodes", "init"}) =>
          /\ file' = file
          /\ entities' = entities
          /\ relations' = relations
      ]_vars

\* A search that found entities, on an instance with relations and a file
\* that holds its graph.
C24_Witness ==
    /\ last.op = "search_nodes"
    /\ last.results # <<>>
    /\ relations # <<>>
    /\ file.lines = SaveLines(entities, relations)

\* The records of the file as they stand in it, before any load merges them.
FileEntityNames(f) ==
    LET IsEntity(line) == line.valid /\ line.obj.type = "entity"
        ls == SelectSeq(f.lines, IsEntity)
    IN  [i \in 1..Len(ls) |-> ls[i].obj.name]

FileRelations(f) ==
    LET IsRelation(line) == line.valid /\ line.obj.type = "relation"
        ls == SelectSeq(f.lines, IsRelation)
    IN  [i \in 1..Len(ls) |-> ls[i].obj]

\* C25: with two processes interleaving load and call-with-save steps on
\* one file, the file holds at all times, so after every save: no relation
\* record with an end that has no entity record, no two relation records
\* with the same triple, no two entity records with the same name.
C25_FileWellFormedUnderInterleaving ==
    LET names == FileEntityNames(file)
        rels == FileRelations(file)
    IN  /\ \A i \in 1..Len(rels) :
              /\ \E k \in 1..Len(names) : names[k] = rels[i].from
              /\ \E k \in 1..Len(names) : names[k] = rels[i].to
        /\ NoDuplicateTriples(rels)
        /\ \A i, j \in 1..Len(names) : names[i] = names[j] => i = j

\* P created a relation on a graph that was stale, because Q had deleted an
\* entity since P's load, and P's save is the one the file holds.
C25_Witness ==
    /\ proc["P"].pc = "idle" /\ proc["Q"].pc = "idle"
    /\ proc["P"].op = "create_relations" /\ proc["P"].err = "none"
    /\ proc["P"].stale
    /\ proc["Q"].op = "delete_entities" /\ proc["Q"].err = "none"
    /\ Len(proc["Q"].entities) < Len(proc["P"].entities)
    /\ FileRelations(file) # <<>>
    /\ file.lines = SaveLines(proc["P"].entities, proc["P"].relations)

\* C26: the graph a process loads, at whatever moment of another process's
\* _save, is a graph the file has held in full, the one it held at first or
\* the graph of a save whose records were all written, never a part of one;
\* and a load between the open and the close of a save that replaces a
\* graph with entities does not yield a graph without entities.
C26_LoadSeesFinishedSave ==
    last.op = "init" =>
        /\ Graph(entities, relations) \in calls
        /\ (/\ last.during = "open"
            /\ last.before.entities # <<>>
            /\ last.saving.entities # <<>>) =>
               entities # <<>>

\* What C27 compares: a session's thoughtHistory, branches and currentBranch.
\* A key that is not in the dict stands for the empty session get_state
\* would create for it.
SessionView(store, key) ==
    [thoughtHistory |-> store[key].state.thoughtHistory,
     branches |-> store[key].state.branches,
     currentBranch |-> store[key].state.currentBranch]

\* C27: a sequential_thinking call with thoughtNumber < 1, or totalThoughts
\* < 1, or thoughtNumber > totalThoughts without needsMoreThoughts returns
\* status error and leaves the session's thoughtHistory, branches and
\* currentBranch as they were.
C27_InvalidCallRecordsNothing ==
    [][(/\ last'.op = "sequential_thinking"
        /\ \/ last'.args.thoughtNumber < 1
           \/ last'.args.totalThoughts < 1
           \/ /\ last'.args.thoughtNumber > last'.args.totalThoughts
              /\ ~last'.args.needsMoreThoughts) =>
          /\ last'.response.status = "error"
          /\ SessionView(_state_store', last'.session) =
                 SessionView(_state_store, last'.session)
      ]_vars

\* A call whose thoughtNumber exceeds totalThoughts was refused on a session
\* that holds a main thought and a branch and stands on the branch.
C27_Witness ==
    /\ last.op = "sequential_thinking"
    /\ last.response.status = "error"
    /\ last.args.thoughtNumber > last.args.totalThoughts
    /\ last.args.totalThoughts >= 1
    /\ _state_store[last.session].state.thoughtHistory # <<>>
    /\ _state_store[last.session].state.currentBranch = "b1"

\* C28: every successful sequential_thinking response has thoughtsSoFar
\* equal to the number of successful sequential_thinking calls on the
\* session since it was created or last cleared, this call included.
C28_ThoughtsSoFarCountsCalls ==
    (last.op = "sequential_thinking" /\ last.response.status = "success") =>
        last.response.thoughtsSoFar = calls[last.session]

\* Every thought of a list has 1 <= thoughtNumber <= totalThoughts.
InRange(thoughts) ==
    \A i \in 1..Len(thoughts) :
        1 <= thoughts[i].thoughtNumber /\ thoughts[i].thoughtNumber <= thoughts[i].totalThoughts

\* C29: every thought stored in a session's thoughtHistory or in one of its
\* branches has 1 <= thoughtNumber <= totalThoughts; and a successful call
\* with needsMoreThoughts and thoughtNumber > totalThoughts returns, and has
\* stored as the last thought of its list, totalThoughts = thoughtNumber.
C29_StoredThoughtsInRange ==
    /\ \A k \in SessionKeys :
          /\ InRange(_state_store[k].state.thoughtHistory)
          /\ \A b \in BranchKeys : InRange(_state_store[k].state.branches[b])
    /\ (/\ last.op = "sequential_thinking"
        /\ last.response.status = "success"
        /\ last.args.needsMoreThoughts
        /\ last.args.thoughtNumber > last.args.totalThoughts) =>
          LET state == _state_store[last.session].state
              list == IF state.currentBranch = "main" THEN state.thoughtHistory
                      ELSE state.branches[state.currentBranch]
          IN  /\ last.response.totalThoughts = last.args.thoughtNumber
              /\ list[Len(list)].totalThoughts = last.args.thoughtNumber
              /\ list[Len(list)].thoughtNumber = last.args.thoughtNumber

\* A call with needsMoreThoughts and thoughtNumber 2 > totalThoughts 1 was
\* recorded in a branch, in a session whose main history holds an expanded
\* thought too.
C29_Witness ==
    /\ last.op = "sequential_thinking"
    /\ last.response.status = "success"
    /\ last.args.needsMoreThoughts
    /\ last.args.thoughtNumber > last.args.totalThoughts
    /\ _state_store[last.session].state.currentBranch = "b2"
    /\ \E i \in 1..Len(_state_store[last.session].state.thoughtHistory) :
          _state_store[last.session].state.thoughtHistory[i].needsMoreThoughts # None

\* C30: after clear_history(s) a get_thought_history(s) reports thoughtCount
\* 0 and no branches, and the other sessions are as they were; and a
\* sequential_thinking call on s leaves the other sessions as they were.
C30_SessionsAreSeparate ==
    [][/\ last'.op = "clear_history" =>
            LET h == get_thought_history(_state_store', last'.args.session_id, TRUE)
            IN  /\ h.response.thoughtCount = 0
                /\ h.response.thoughts = <<>>
                /\ ~h.response.hasBranches
                /\ \A k \in SessionKeys \ {last'.session} :
                      _state_store'[k] = _state_store[k]
       /\ last'.op = "sequential_thinking" =>
            \A k \in SessionKeys \ {last'.session} : _state_store'[k] = _state_store[k]
      ]_vars

\* clear_history ran on a session that held a main thought and a branch
\* thought, while the other session holds a thought.
C30_Witness ==
    /\ last.op = "clear_history"
    /\ last.held = 2
    /\ ~_state_store[last.session].exists
    /\ \E k \in SessionKeys \ {last.session} :
          /\ _state_store[k].exists
          /\ ThoughtsIn(_state_store[k].state) = 1

====
